---- MODULE Spec2Model ----
(***************************************************************************)
(* Time bucketing and summarisation in the AEM Cloud Migrations Reporter:  *)
(* the calculateData callbacks of createCustomersGraph and                 *)
(* createIngestionsGraph (graph.js: bounded to 60 days; the later revision *)
(* of graph.js: all time) and the month grouping of createLineGraph and    *)
(* createTotalIngestionsGraph (lineGraph.js).                              *)
(*                                                                         *)
(* Time is counted in ticks of MsPerTick milliseconds (half a day), so     *)
(* that a timestamp can lie strictly inside a day as well as exactly on a  *)
(* day boundary while every value stays a small integer.  JavaScript       *)
(* values are records [t, n, items]: t is the type, n the value of a       *)
(* number, items the elements of an array.                                 *)
(***************************************************************************)
EXTENDS Integers, Sequences, FiniteSets, TLC

VARIABLES migs, clock, result, totalText, error,
          request, response, promise,
          cachedUserProfile, fetchPromise, calls, requests, inFlight, answer,
          page, app, searches,
          table

(* The graphs, the retrieval calls of api.js, the user profile of
   userProfile.js, the MigrationsApp of a page, the MigrationsTable *)
graphVars == <<migs, clock, result, totalText, error>>
retrievalVars == <<request, response, promise>>
profileVars == <<cachedUserProfile, fetchPromise, calls, requests, inFlight, answer>>

appVars == <<page, app, searches>>
tableVars == <<table>>

vars == <<graphVars, retrievalVars, profileVars, appVars, tableVars>>

----------------------------------------------------------------------------
(* Bounds of the model *)

MaxRecords == 2
MaxDates == 1
MaxTicks == 1
MaxCallers == 3
MaxRequests == 2
MaxEvents == 4

----------------------------------------------------------------------------
(* Units *)

MsPerDay == 24 * 60 * 60 * 1000
MsPerTick == 12 * 60 * 60 * 1000
DAY == MsPerDay \div MsPerTick

----------------------------------------------------------------------------
(* JavaScript values and the coercions the code relies on *)

Num(n) == [t |-> "number", n |-> n, items |-> <<>>]
NaN == [t |-> "NaN", n |-> 0, items |-> <<>>]
Null == [t |-> "null", n |-> 0, items |-> <<>>]
Undefined == [t |-> "undefined", n |-> 0, items |-> <<>>]
Object(id) == [t |-> "object", n |-> id, items |-> <<>>]
Str == [t |-> "string", n |-> 0, items |-> <<>>]
Arr(s) == [t |-> "array", n |-> 0, items |-> s]

ToNumber(v) ==
  CASE v.t = "number" -> v
    [] v.t = "null" -> Num(0)
    [] OTHER -> NaN

Truthy(v) ==
  CASE v.t = "number" -> v.n # 0
    [] v.t = "string" -> TRUE
    [] v.t = "array" -> TRUE
    [] v.t = "object" -> TRUE
    [] OTHER -> FALSE

IsArray(v) == v.t = "array"

(* const x = e: the value of e computed once and named, written
   Only({body : x \in {e}}) *)
Only(S) == CHOOSE x \in S : TRUE

IsNum(x) == x.t = "number"

Minus(a, b) ==
  LET x == ToNumber(a)
      y == ToNumber(b)
  IN IF IsNum(x) /\ IsNum(y) THEN Num(x.n - y.n) ELSE NaN

GE(a, b) ==
  LET x == ToNumber(a)
      y == ToNumber(b)
  IN IsNum(x) /\ IsNum(y) /\ x.n >= y.n

LE(a, b) == GE(b, a)

GT(a, b) ==
  LET x == ToNumber(a)
      y == ToNumber(b)
  IN IsNum(x) /\ IsNum(y) /\ x.n > y.n

LT(a, b) == GT(b, a)

FloorDiv(a, d) ==
  LET x == ToNumber(a)
  IN IF IsNum(x) THEN Num(x.n \div d) ELSE NaN

----------------------------------------------------------------------------
(* The UTC calendar behind Date.getUTCFullYear / getUTCMonth and behind
   new Date("YYYY-MM-01T00:00:00Z"), on day numbers since 1970-01-01 *)

CivilFromDays(days) ==
  LET z == days + 719468
      era == z \div 146097
      doe == z - era * 146097
      yoe == (doe - doe \div 1460 + doe \div 36524 - doe \div 146096) \div 365
      doy == doe - (365 * yoe + yoe \div 4 - yoe \div 100)
      mp == (5 * doy + 2) \div 153
      m == IF mp < 10 THEN mp + 3 ELSE mp - 9
      y == yoe + era * 400 + (IF m <= 2 THEN 1 ELSE 0)
  IN [year |-> y, month |-> m, day |-> doy - (153 * mp + 2) \div 5 + 1]

DaysFromCivil(year, month, day) ==
  LET y == IF month <= 2 THEN year - 1 ELSE year
      era == y \div 400
      yoe == y - era * 400
      mp == IF month > 2 THEN month - 3 ELSE month + 9
      doy == (153 * mp + 2) \div 5 + day - 1
      doe == yoe * 365 + yoe \div 4 - yoe \div 100 + doy
  IN era * 146097 + doe - 719468

----------------------------------------------------------------------------
(* Day-range buckets *)

dayRanges == <<"1-10", "11-20", "21-30", "31-40", "41-50", "51-60">>

Ranges == 1..Len(dayRanges)

NoBucket == 0

(* Mutant of bucket60: the first range written daysAgo <= 10 *)
bucket60_TenInFirstRange(timestamp, now) ==
  LET sixtyDaysAgo == Minus(now, Num(60 * DAY))
      daysAgo == FloorDiv(Minus(now, timestamp), DAY)
  IN IF GE(timestamp, sixtyDaysAgo) /\ LE(timestamp, now)
     THEN IF GE(daysAgo, Num(0)) /\ LE(daysAgo, Num(10)) THEN 1
          ELSE IF GE(daysAgo, Num(10)) /\ LT(daysAgo, Num(20)) THEN 2
          ELSE IF GE(daysAgo, Num(20)) /\ LT(daysAgo, Num(30)) THEN 3
          ELSE IF GE(daysAgo, Num(30)) /\ LT(daysAgo, Num(40)) THEN 4
          ELSE IF GE(daysAgo, Num(40)) /\ LT(daysAgo, Num(50)) THEN 5
          ELSE IF GE(daysAgo, Num(50)) /\ LT(daysAgo, Num(60)) THEN 6
          ELSE NoBucket
     ELSE NoBucket

(* Mutant of bucket60: the last range written daysAgo <= 60 *)
bucket60_SixtyInLastRange(timestamp, now) ==
  LET sixtyDaysAgo == Minus(now, Num(60 * DAY))
      daysAgo == FloorDiv(Minus(now, timestamp), DAY)
  IN IF GE(timestamp, sixtyDaysAgo) /\ LE(timestamp, now)
     THEN IF GE(daysAgo, Num(0)) /\ LT(daysAgo, Num(10)) THEN 1
          ELSE IF GE(daysAgo, Num(10)) /\ LT(daysAgo, Num(20)) THEN 2
          ELSE IF GE(daysAgo, Num(20)) /\ LT(daysAgo, Num(30)) THEN 3
          ELSE IF GE(daysAgo, Num(30)) /\ LT(daysAgo, Num(40)) THEN 4
          ELSE IF GE(daysAgo, Num(40)) /\ LT(daysAgo, Num(50)) THEN 5
          ELSE IF GE(daysAgo, Num(50)) /\ LE(daysAgo, Num(60)) THEN 6
          ELSE NoBucket
     ELSE NoBucket

(* createCustomersGraph / createIngestionsGraph of graph.js: the timestamp's
   bucket within the last 60 days *)
bucket60(timestamp, now) ==
  LET sixtyDaysAgo == Minus(now, Num(60 * DAY))
      daysAgo == FloorDiv(Minus(now, timestamp), DAY)
  IN IF GE(timestamp, sixtyDaysAgo) /\ LE(timestamp, now)
     THEN IF GE(daysAgo, Num(0)) /\ LT(daysAgo, Num(10)) THEN 1
          ELSE IF GE(daysAgo, Num(10)) /\ LT(daysAgo, Num(20)) THEN 2
          ELSE IF GE(daysAgo, Num(20)) /\ LT(daysAgo, Num(30)) THEN 3
          ELSE IF GE(daysAgo, Num(30)) /\ LT(daysAgo, Num(40)) THEN 4
          ELSE IF GE(daysAgo, Num(40)) /\ LT(daysAgo, Num(50)) THEN 5
          ELSE IF GE(daysAgo, Num(50)) /\ LT(daysAgo, Num(60)) THEN 6
          ELSE NoBucket
     ELSE NoBucket

(* Mutant of bucketAllCustomers: the day ranges assigned in reverse order *)
bucketAllCustomers_Reversed(timestamp, now) ==
  LET daysAgo == FloorDiv(Minus(now, timestamp), DAY)
  IN IF GE(daysAgo, Num(0))
     THEN IF GE(daysAgo, Num(0)) /\ LT(daysAgo, Num(10)) THEN 6
          ELSE IF GE(daysAgo, Num(10)) /\ LT(daysAgo, Num(20)) THEN 5
          ELSE IF GE(daysAgo, Num(20)) /\ LT(daysAgo, Num(30)) THEN 4
          ELSE IF GE(daysAgo, Num(30)) /\ LT(daysAgo, Num(40)) THEN 3
          ELSE IF GE(daysAgo, Num(40)) /\ LT(daysAgo, Num(50)) THEN 2
          ELSE IF GE(daysAgo, Num(50)) THEN 1
          ELSE NoBucket
     ELSE NoBucket

(* createCustomersGraph of the all-time revision: "Include all ingestions" *)
bucketAllCustomers(timestamp, now) ==
  LET daysAgo == FloorDiv(Minus(now, timestamp), DAY)
  IN IF GE(daysAgo, Num(0))
     THEN IF GE(daysAgo, Num(0)) /\ LT(daysAgo, Num(10)) THEN 1
          ELSE IF GE(daysAgo, Num(10)) /\ LT(daysAgo, Num(20)) THEN 2
          ELSE IF GE(daysAgo, Num(20)) /\ LT(daysAgo, Num(30)) THEN 3
          ELSE IF GE(daysAgo, Num(30)) /\ LT(daysAgo, Num(40)) THEN 4
          ELSE IF GE(daysAgo, Num(40)) /\ LT(daysAgo, Num(50)) THEN 5
          ELSE IF GE(daysAgo, Num(50)) THEN 6
          ELSE NoBucket
     ELSE NoBucket

(* Mutant of bucketAllIngestions: the last range closed at 60 days *)
bucketAllIngestions_Within60(timestamp, now) ==
  LET daysAgo == FloorDiv(Minus(now, timestamp), DAY)
  IN IF LE(timestamp, now)
     THEN IF GE(daysAgo, Num(0)) /\ LE(daysAgo, Num(9)) THEN 1
          ELSE IF GE(daysAgo, Num(10)) /\ LE(daysAgo, Num(19)) THEN 2
          ELSE IF GE(daysAgo, Num(20)) /\ LE(daysAgo, Num(29)) THEN 3
          ELSE IF GE(daysAgo, Num(30)) /\ LE(daysAgo, Num(39)) THEN 4
          ELSE IF GE(daysAgo, Num(40)) /\ LE(daysAgo, Num(49)) THEN 5
          ELSE IF GE(daysAgo, Num(50)) /\ LT(daysAgo, Num(60)) THEN 6
          ELSE NoBucket
     ELSE NoBucket

(* createIngestionsGraph of the all-time revision *)
bucketAllIngestions(timestamp, now) ==
  LET daysAgo == FloorDiv(Minus(now, timestamp), DAY)
  IN IF LE(timestamp, now)
     THEN IF GE(daysAgo, Num(0)) /\ LE(daysAgo, Num(9)) THEN 1
          ELSE IF GE(daysAgo, Num(10)) /\ LE(daysAgo, Num(19)) THEN 2
          ELSE IF GE(daysAgo, Num(20)) /\ LE(daysAgo, Num(29)) THEN 3
          ELSE IF GE(daysAgo, Num(30)) /\ LE(daysAgo, Num(39)) THEN 4
          ELSE IF GE(daysAgo, Num(40)) /\ LE(daysAgo, Num(49)) THEN 5
          ELSE IF GE(daysAgo, Num(50)) THEN 6
          ELSE NoBucket
     ELSE NoBucket

(* The bucket a calculateData variant gives a timestamp.  Variants:
   "customers60", "ingestions60" (graph.js), "customersAll", "ingestionsAll"
   (all-time revision) *)
Variants60 == {"customers60", "ingestions60"}
VariantsAll == {"customersAll", "ingestionsAll"}
CustomerVariants == {"customers60", "customersAll"}
IngestionVariants == {"ingestions60", "ingestionsAll"}
BarVariants == Variants60 \cup VariantsAll

bucketOf(variant, timestamp, now) ==
  CASE variant \in Variants60 -> bucket60(timestamp, now)
    [] variant = "customersAll" -> bucketAllCustomers(timestamp, now)
    [] variant = "ingestionsAll" -> bucketAllIngestions(timestamp, now)

(* Mutant of validMigrations: the filter without Array.isArray *)
validMigrations_AnyTruthy(ms) ==
  SelectSeq(ms, LAMBDA m : Truthy(m.ingestionStartDates))

(* migs.filter((m) => m.ingestionStartDates && Array.isArray(m.ingestionStartDates)) *)
validMigrations(ms) ==
  SelectSeq(ms, LAMBDA m : Truthy(m.ingestionStartDates) /\ IsArray(m.ingestionStartDates))

(* The nested forEach of the customers graphs: one Set of customer names
   per day range *)
RECURSIVE addCustomerDates(_, _, _, _, _)
addCustomerDates(perRange, customerName, items, now, variant) ==
  IF items = <<>> THEN perRange
  ELSE Only({Only({addCustomerDates(
                      IF b = NoBucket THEN perRange
                      ELSE [perRange EXCEPT ![b] = @ \cup {customerName}],
                      customerName, rest, now, variant) :
                    b \in {bucketOf(variant, timestamp, now)}}) :
             timestamp \in {Head(items)}, rest \in {Tail(items)}})

RECURSIVE customersPerRangeFrom(_, _, _, _)
customersPerRangeFrom(perRange, valid, now, variant) ==
  IF valid = <<>> THEN perRange
  ELSE Only({Only({customersPerRangeFrom(next, rest, now, variant) :
                    next \in {addCustomerDates(perRange, migration.customerName,
                                               migration.ingestionStartDates.items,
                                               now, variant)}}) :
             migration \in {Head(valid)}, rest \in {Tail(valid)}})

customersPerRange(ms, now, variant) ==
  Only({customersPerRangeFrom([r \in Ranges |-> {}], valid, now, variant) :
        valid \in {validMigrations(ms)}})

(* The nested forEach of the ingestions graphs: one counter per day range *)
RECURSIVE addIngestionDates(_, _, _, _)
addIngestionDates(counts, items, now, variant) ==
  IF items = <<>> THEN counts
  ELSE Only({Only({addIngestionDates(
                      IF b = NoBucket THEN counts
                      ELSE [counts EXCEPT ![b] = @ + 1],
                      rest, now, variant) :
                    b \in {bucketOf(variant, timestamp, now)}}) :
             timestamp \in {Head(items)}, rest \in {Tail(items)}})

RECURSIVE ingestionCountsFrom(_, _, _, _)
ingestionCountsFrom(counts, valid, now, variant) ==
  IF valid = <<>> THEN counts
  ELSE Only({Only({ingestionCountsFrom(next, rest, now, variant) :
                    next \in {addIngestionDates(counts,
                                                migration.ingestionStartDates.items,
                                                now, variant)}}) :
             migration \in {Head(valid)}, rest \in {Tail(valid)}})

(* Mutant of rangeCounts: customers counted once per timestamp instead of
   once per Set member *)
rangeCounts_PerTimestamp(ms, now, variant) ==
  Only({ingestionCountsFrom([r \in Ranges |-> 0], valid, now, variant) :
        valid \in {validMigrations(ms)}})

(* rangeCounts of either kind of graph *)
rangeCounts(ms, now, variant) ==
  IF variant \in CustomerVariants
  THEN Only({[r \in Ranges |-> Cardinality(perRange[r])] :
             perRange \in {customersPerRange(ms, now, variant)}})
  ELSE Only({ingestionCountsFrom([r \in Ranges |-> 0], valid, now, variant) :
             valid \in {validMigrations(ms)}})

(* The sum of a sequence of numbers *)
RECURSIVE SumSeq(_)
SumSeq(s) == IF s = <<>> THEN 0 ELSE Head(s) + SumSeq(Tail(s))

(* Math.max(...Object.values(rangeCounts)) *)
MathMax(counts) ==
  Only({CHOOSE x \in {c[i] : i \in DOMAIN c} : \A i \in DOMAIN c : c[i] <= x :
        c \in {counts}})

(* Mutant of totalUniqueCustomers: the sizes of the six Sets added up *)
totalUniqueCustomers_SumOfSizes(ms, now, variant) ==
  Only({SumSeq([r \in Ranges |-> Cardinality(perRange[r])]) :
        perRange \in {customersPerRange(ms, now, variant)}})

(* const allUniqueCustomers = new Set(); ... allUniqueCustomers.size *)
totalUniqueCustomers(ms, now, variant) ==
  Only({Cardinality(UNION {perRange[r] : r \in Ranges}) :
        perRange \in {customersPerRange(ms, now, variant)}})

(* Mutant of distributedData: ranges without a count are left out *)
distributedData_OmitZero(counts) ==
  SelectSeq([i \in Ranges |-> [range |-> dayRanges[i], count |-> counts[i]]],
            LAMBDA point : point.count > 0)

(* dayRanges.map((range) => ({ range, count, tooltip })); the tooltip text is
   not modelled *)
distributedData(counts) ==
  [i \in Ranges |-> [range |-> dayRanges[i], count |-> counts[i]]]

EmptySeries(variant, now) ==
  [fn |-> variant, now |-> now, dataPoints |-> <<>>, maxCount |-> 0,
   totalUniqueCustomers |-> Undefined]

(* Mutant of calculateData: maxCount returned without "|| 1" *)
calculateData_NoFloor(variant, ms, now) ==
  IF Len(validMigrations(ms)) = 0 THEN EmptySeries(variant, now)
  ELSE Only({[fn |-> variant, now |-> now,
              dataPoints |-> distributedData(counts),
              maxCount |-> MathMax(counts),
              totalUniqueCustomers |->
                IF variant = "customersAll"
                THEN Num(totalUniqueCustomers(ms, now, variant))
                ELSE Undefined] :
             counts \in {rangeCounts(ms, now, variant)}})

(* calculateData of the four bar graphs; now is the Date.now() it read *)
calculateData(variant, ms, now) ==
  IF Len(validMigrations(ms)) = 0 THEN EmptySeries(variant, now)
  ELSE Only({Only({[fn |-> variant, now |-> now,
                     dataPoints |-> distributedData(counts),
                     maxCount |-> IF maxCount # 0 THEN maxCount ELSE 1,
                     totalUniqueCustomers |->
                       IF variant = "customersAll"
                       THEN Num(totalUniqueCustomers(ms, now, variant))
                       ELSE Undefined] :
                    maxCount \in {MathMax(counts)}}) :
             counts \in {rangeCounts(ms, now, variant)}})

----------------------------------------------------------------------------
(* Month-indexed series of lineGraph.js *)

(* `${date.getUTCFullYear()}-${String(date.getUTCMonth() + 1).padStart(2, '0')}`
   of new Date(timestamp): the key is kept as its two numbers *)
monthKeyOf(timestamp) ==
  Only({[year |-> date.year, month |-> date.month] :
        date \in {CivilFromDays(timestamp \div DAY)}})

(* new Date(`${monthKey}-01T00:00:00Z`).getTime() *)
monthStart(monthKey) == DaysFromCivil(monthKey.year, monthKey.month, 1) * DAY

(* Mutant of mapAdd: monthGroups.set(monthKey, amount), the earlier total of
   the month forgotten *)
mapAdd_Overwrite(monthGroups, monthKey, amount) ==
  Only({IF \E i \in DOMAIN groups : groups[i].monthKey = key
        THEN [i \in DOMAIN groups |->
                IF groups[i].monthKey = key
                THEN [groups[i] EXCEPT !.count = amount]
                ELSE groups[i]]
        ELSE Append(groups, [monthKey |-> key, count |-> amount]) :
        groups \in {monthGroups}, key \in {monthKey}})

(* monthGroups.set(monthKey, (monthGroups.get(monthKey) || 0) + amount), the
   Map being the sequence of its entries in insertion order *)
mapAdd(monthGroups, monthKey, amount) ==
  Only({IF \E i \in DOMAIN groups : groups[i].monthKey = key
        THEN [i \in DOMAIN groups |->
                IF groups[i].monthKey = key
                THEN [groups[i] EXCEPT !.count = @ + amount]
                ELSE groups[i]]
        ELSE Append(groups, [monthKey |-> key, count |-> amount]) :
        groups \in {monthGroups}, key \in {monthKey}})

(* Number(migration.totalIngestions) || 0 *)
ingestionsOf(m) ==
  LET n == ToNumber(m.totalIngestions)
  IN IF Truthy(n) THEN n.n ELSE 0

RECURSIVE groupByMonth(_, _, _)
groupByMonth(monthGroups, valid, fn) ==
  IF valid = <<>> THEN monthGroups
  ELSE Only({Only({groupByMonth(next, rest, fn) :
                    next \in {mapAdd(monthGroups,
                                     monthKeyOf(migration.lastIngestion.n),
                                     IF fn = "lineGraph" THEN 1
                                     ELSE ingestionsOf(migration))}}) :
             migration \in {Head(valid)}, rest \in {Tail(valid)}})

(* Mutant of sortByDate: the entries left in the insertion order of the Map *)
sortByDate_InsertionOrder(points) == points

(* .sort((a, b) => a.date - b.date), a stable sort *)
RECURSIVE insertByDate(_, _)
insertByDate(sorted, point) ==
  Only({IF s = <<>> THEN <<point>>
        ELSE IF point.date < Head(s).date THEN <<point>> \o s
        ELSE <<Head(s)>> \o insertByDate(Tail(s), point) :
        s \in {sorted}})

RECURSIVE sortByDate(_)
sortByDate(points) ==
  Only({IF p = <<>> THEN <<>>
        ELSE insertByDate(sortByDate(SubSeq(p, 1, Len(p) - 1)), p[Len(p)]) :
        p \in {points}})

(* The two filters: createLineGraph keeps m.lastIngestion && m.lastIngestion > 0,
   createTotalIngestionsGraph also asks for a truthy m.totalIngestions *)
validLineMigrations(ms, fn) ==
  SelectSeq(ms, LAMBDA m :
    /\ Truthy(m.lastIngestion)
    /\ GT(m.lastIngestion, Num(0))
    /\ (fn = "totalIngestionsGraph" => Truthy(m.totalIngestions)))

lineDataPoints(ms, fn) ==
  Only({sortByDate([i \in DOMAIN monthGroups |->
                      [date |-> monthStart(monthGroups[i].monthKey),
                       count |-> monthGroups[i].count,
                       monthKey |-> monthGroups[i].monthKey]]) :
        monthGroups \in {groupByMonth(<<>>, validLineMigrations(ms, fn), fn)}})

(* const maxCount = Math.max(...dataPoints.map((d) => d.count)) *)
lineMaxCount(dataPoints) ==
  MathMax([i \in DOMAIN dataPoints |-> dataPoints[i].count])

(* Graph dimensions: width, padding.left, padding.right, and
   graphWidth = width - padding.left - padding.right *)
width == 800
paddingLeft == 60
paddingRight == 30
graphWidth == width - paddingLeft - paddingRight

(* The JavaScript division of two finite numbers, the quotient rounded down
   to a whole number: 0 / 0 is NaN, n / 0 is an infinity *)
Divide(a, b) ==
  IF b # 0 THEN Num(a \div b)
  ELSE IF a = 0 THEN NaN
  ELSE [t |-> "Infinity", n |-> 0, items |-> <<>>]

(* const x = padding.left
             + (point.date.getTime() - minDate) / (maxDate - minDate) * graphWidth,
   the product taken before the division so that the quotient is rounded
   once; NaN and the infinities stay what they are *)
xCoordinate(date, minDate, maxDate) ==
  Only({IF q.t = "number" THEN Num(paddingLeft + q.n) ELSE q :
        q \in {Divide((date - minDate) * graphWidth, maxDate - minDate)}})

(* minDate and maxDate are the dates of the first and the last data point;
   the path gets one x per data point *)
pathXs(dataPoints) ==
  Only({[i \in DOMAIN dataPoints |->
           xCoordinate(dataPoints[i].date, minDate, maxDate)] :
        minDate \in {dataPoints[1].date},
        maxDate \in {dataPoints[Len(dataPoints)].date}})

(* What a line graph is drawn from: the data points, maxCount and the x
   coordinates of the path *)
lineSeries(fn, now, dataPoints) ==
  [fn |-> fn, now |-> now, dataPoints |-> dataPoints,
   maxCount |-> lineMaxCount(dataPoints),
   xs |-> pathXs(dataPoints),
   totalUniqueCustomers |-> Undefined]

(* The dateRange argument: the five values of DateRange and any other string *)
DateRanges ==
  {"LAST_MONTH", "LAST_2_MONTHS", "LAST_3_MONTHS", "LAST_6_MONTHS", "LAST_YEAR",
   "OTHER"}

(* The switch on dateRange: how many months startDate is set back
   (setFullYear(year - 1) for LAST_YEAR) *)
monthsBack(dateRange) ==
  CASE dateRange = "LAST_MONTH" -> 1
    [] dateRange = "LAST_2_MONTHS" -> 2
    [] dateRange = "LAST_3_MONTHS" -> 3
    [] dateRange = "LAST_6_MONTHS" -> 6
    [] dateRange = "LAST_YEAR" -> 12
    [] OTHER -> 1

(* startDate: midnight of today moved back by the months of the range, a day
   past the end of its month running over into the next one as setMonth
   does; the local time zone is taken to be UTC *)
startDate(now, dateRange) ==
  LET endDate == CivilFromDays(now.n \div DAY)
      months == endDate.year * 12 + (endDate.month - 1) - monthsBack(dateRange)
  IN DaysFromCivil(months \div 12, (months % 12) + 1, endDate.day) * DAY

(* Mutant of lineGraph: records before startDate are filtered out *)
lineGraph_SinceStartDate(fn, ms, now, dateRange) ==
  Only({IF Len(validLineMigrations(since, fn)) = 0 THEN EmptySeries(fn, now)
        ELSE Only({lineSeries(fn, now, dataPoints) :
                   dataPoints \in {lineDataPoints(since, fn)}}) :
        since \in {SelectSeq(ms, LAMBDA m :
                      GE(m.lastIngestion, Num(startDate(now, dateRange))))}})

(* createLineGraph ("lineGraph") and createTotalIngestionsGraph
   ("totalIngestionsGraph") up to the path of the line; without valid records the
   function returns the no-data container before any scale is computed.
   now, endDate and the startDate of the dateRange are computed first and
   read by nothing that follows. *)
lineGraph(fn, ms, now, dateRange) ==
  LET start == startDate(now, dateRange)
  IN IF Len(validLineMigrations(ms, fn)) = 0 THEN EmptySeries(fn, now)
     ELSE Only({lineSeries(fn, now, dataPoints) :
                dataPoints \in {lineDataPoints(ms, fn)}})

LineFns == {"lineGraph", "totalIngestionsGraph"}

----------------------------------------------------------------------------
(* Inputs *)

Rec(name, dates, last, total) ==
  [customerName |-> name, ingestionStartDates |-> dates,
   lastIngestion |-> last, totalIngestions |-> total]

SeqsUpTo(S, n) == UNION {[1..k -> S] : k \in 0..n}

(* The wall clock at page load: noon of 2025-11-15 UTC *)
Clock0 == DaysFromCivil(2025, 11, 15) * DAY + 1

CustomerNames == {"A", "B"}

(* Records of the bar graphs: ingestionStartDates is absent or lists
   timestamps 5 and 25 days old, two neighbours never the same *)
BarTimestamps == {Num(Clock0 - 5 * DAY), Num(Clock0 - 25 * DAY)}

BarDateSeqs ==
  {s \in SeqsUpTo(BarTimestamps, MaxDates) :
     \A i \in 1..(Len(s) - 1) : s[i] # s[i + 1]}

BarDates == {Undefined} \cup {Arr(s) : s \in BarDateSeqs}

BarRecords ==
  {Rec(name, dates, Undefined, Undefined) : name \in CustomerNames, dates \in BarDates}

BarLists == SeqsUpTo(BarRecords, MaxRecords)

(* One record whose first timestamp probes the day boundaries: ticks before
   Clock0, and the values that are no timestamps *)
ProbeOffsets ==
  {-1, 0, 1, 19, 20, 21, 39, 40, 41, 59, 60, 79, 80, 99, 100, 101,
   118, 119, 120, 121, 140, 400}

ProbeValues ==
  {Num(Clock0 - k) : k \in ProbeOffsets} \cup {Null, Undefined, Str, NaN}

ProbeLists ==
  {<<Rec("A", Arr(<<v>>), Undefined, Undefined)>> : v \in ProbeValues}
  \cup {<<Rec("A", Arr(<<v, Num(Clock0 - 5 * DAY)>>), Undefined, Undefined)>> :
          v \in ProbeValues}
  \cup {<<Rec("A", Str, Undefined, Undefined)>>}

(* The example of the specification: A: [now-5d], A: [now-5d, now-25d], B: [now-25d] *)
ExampleList(now) ==
  <<Rec("A", Arr(<<Num(now - 5 * DAY)>>), Undefined, Undefined),
    Rec("A", Arr(<<Num(now - 5 * DAY), Num(now - 25 * DAY)>>), Undefined, Undefined),
    Rec("B", Arr(<<Num(now - 25 * DAY)>>), Undefined, Undefined)>>

(* Records of the line graphs: lastIngestion absent, zero, in August 2025,
   twice in November 2025, in January 2026, each with 3 ingestions; and totalIngestions absent,
   not numeric, 0, 4, -2 on the first November date *)
FirstNovember == Num(DaysFromCivil(2025, 11, 3) * DAY)

LastIngestions ==
  {Undefined, Num(0), Num(DaysFromCivil(2025, 8, 10) * DAY), FirstNovember,
   Num(DaysFromCivil(2025, 11, 20) * DAY + 1),
   Num(DaysFromCivil(2026, 1, 1) * DAY)}

TotalIngestions == {Undefined, Str, Num(0), Num(3), Num(4), Num(-2)}

LineRecords ==
  {Rec("A", Undefined, last, Num(3)) : last \in LastIngestions}
  \cup {Rec("A", Undefined, FirstNovember, total) : total \in TotalIngestions}

LineLists == SeqsUpTo(LineRecords, MaxRecords)

(* The customerName read from a record that has none *)
NoName == "undefined"

(* Records with fields missing or of the wrong type *)
MalformedLists ==
  {<<Rec(NoName, Arr(<<Num(Clock0 - 5 * DAY)>>), Undefined, Undefined)>>,
   <<Rec("A", Null, Null, Null)>>,
   <<Rec("A", Num(7), Str, Str)>>,
   <<Rec("A", Str, Str, Num(3)), Rec("B", Arr(<<Str>>), FirstNovember, Str)>>}

Inputs ==
  BarLists \cup ProbeLists \cup {ExampleList(Clock0)} \cup LineLists
    \cup MalformedLists

----------------------------------------------------------------------------
(* The state machine: a record list as returned by the retrieval call, the
   wall clock, the series computed last, the number of the "Total: ..."
   text drawn with it (Undefined when the graph has none), and the error the
   last call threw ("none" when it returned) *)

NoResult ==
  [fn |-> "none", now |-> Num(0), dataPoints |-> <<>>, maxCount |-> 0,
   totalUniqueCustomers |-> Undefined]

(* No retrieval call made yet *)
NoRequest == [fn |-> "none", searchBy |-> "", dateRange |-> "", params |-> {}]
NoResponse == [kind |-> "none", status |-> 0, body |-> Undefined]
NoPromise == [state |-> "none", value |-> Undefined]

IdleRetrieval ==
  /\ request = NoRequest
  /\ response = NoResponse
  /\ promise = NoPromise

(* The callers of getUserProfile: the pages' ensureUserProfile *)
Callers == 1..MaxCallers

NoCall == [state |-> "idle", value |-> Undefined, via |-> "none"]

(* No fetch of the profile has been answered *)
NoAnswer == [ok |-> FALSE, profile |-> Null]

(* let cachedUserProfile = null; let fetchPromise = null; *)
IdleProfile ==
  /\ cachedUserProfile = Null
  /\ fetchPromise = Null
  /\ calls = [c \in Callers |-> NoCall]
  /\ requests = 0
  /\ inFlight = 0
  /\ answer = NoAnswer

(* No page is open: no MigrationsApp has been constructed.  An app has
   this.userProfile; the listeners it attached; the disabled flag of the
   search input and button; the content of the migrations container; the
   'loading' class of the body and the 'hidden' class of the spinner;
   this.migrations and the rows of the table; the range named in the
   total-ingestions header and the range the graphs were drawn for; the values of date-range-select and of customer-search
   (the rank of a name, 0 when empty; edited once the user has typed in
   it); the requestAnimationFrame callbacks waiting (outer, then inner); the calls
   of the retrieval functions and the requests they issued; the number of
   user events dispatched and of searches started. *)
NoPage ==
  [variant |-> "none", isLocalhost |-> FALSE, email |-> FALSE, name |-> FALSE,
   select |-> FALSE]

NoApp ==
  [constructed |-> FALSE, userProfile |-> Null, listeners |-> {},
   disabled |-> FALSE, container |-> "initial", loading |-> FALSE,
   spinnerHidden |-> TRUE, migrations |-> Arr(<<>>), rows |-> <<>>,
   header |-> "none", graphs |-> "none", selected |-> "LAST_MONTH",
   outer |-> FALSE,
   inner |-> FALSE, term |-> 0, edited |-> FALSE, dataCalls |-> <<>>, dataRequests |-> <<>>, events |-> 0,
   started |-> 0]

(* No call of a retrieval function, no request *)
NoDataCall ==
  [fn |-> "none", searchBy |-> "(omitted)", dateRange |-> "(omitted)",
   userProfile |-> Undefined]
NoDataRequest == [fn |-> "none", params |-> {}]

(* A startMigrationSearch that has not been invoked.  An invocation has its
   place in the function, how it ended, its selectedRange, its rank among
   the invocations, the invocations that were under way when it started,
   its call of the retrieval function and the request the call issued. *)
NoSearch ==
  [pc |-> "idle", outcome |-> "none", selectedRange |-> "none", order |-> 0,
   during |-> {}, call |-> NoDataCall, request |-> NoDataRequest]

IdleApp ==
  /\ page = NoPage
  /\ app = NoApp
  /\ searches = [c \in Callers |-> NoSearch]

(* new MigrationsTable() *)
NoTable ==
  [variant |-> "none", sortDirection |-> "asc", isSortingEnabled |-> FALSE,
   built |-> FALSE, headers |-> {}, rows |-> <<>>, data |-> <<>>]

IdleTable == table = NoTable

Init ==
  /\ migs \in Inputs
  /\ clock = Clock0
  /\ result = NoResult
  /\ totalText = Undefined
  /\ error = "none"
  /\ IdleRetrieval
  /\ IdleProfile
  /\ IdleApp
  /\ IdleTable

(* Time passes *)
Tick ==
  /\ clock < Clock0 + MaxTicks
  /\ clock' = clock + 1
  /\ UNCHANGED <<migs, result, totalText, error, retrievalVars, profileVars, appVars, tableVars>>

(* migration.ingestionStartDates.forEach(...) of a record that passed the
   filter: a TypeError unless the value is an array *)
forEachThrows(ms) ==
  \E i \in DOMAIN validMigrations(ms) :
    ~IsArray(validMigrations(ms)[i].ingestionStartDates)

(* dataPoints[0].date.getTime() after the early return for an empty
   validMigrations: a TypeError if there is no first point *)
scalesThrow(fn, ms) ==
  Len(validLineMigrations(ms, fn)) # 0 /\ lineDataPoints(ms, fn) = <<>>

(* createCustomersGraph / createIngestionsGraph of graph.js (last 60 days) *)
CustomersGraph60 ==
  /\ IF forEachThrows(migs)
     THEN error' = "TypeError" /\ UNCHANGED <<result, totalText>>
     ELSE /\ result' = calculateData("customers60", migs, Num(clock))
          /\ totalText' = Undefined
          /\ error' = "none"
  /\ UNCHANGED <<migs, clock, retrievalVars, profileVars, appVars, tableVars>>

IngestionsGraph60 ==
  /\ IF forEachThrows(migs)
     THEN error' = "TypeError" /\ UNCHANGED <<result, totalText>>
     ELSE /\ result' = calculateData("ingestions60", migs, Num(clock))
          /\ totalText' = Undefined
          /\ error' = "none"
  /\ UNCHANGED <<migs, clock, retrievalVars, profileVars, appVars, tableVars>>

(* Mutant of grandTotal: always the sum of the bars *)
grandTotal_SumOfBars(series) ==
  SumSeq([i \in DOMAIN series.dataPoints |-> series.dataPoints[i].count])

(* createBarGraph of the all-time revision: totalUniqueCustomers !== undefined
   ? totalUniqueCustomers : dataPoints.reduce((sum, dp) => sum + dp.count, 0) *)
grandTotal(series) ==
  IF series.totalUniqueCustomers # Undefined
  THEN series.totalUniqueCustomers.n
  ELSE SumSeq([i \in DOMAIN series.dataPoints |-> series.dataPoints[i].count])

(* createCustomersGraph / createIngestionsGraph of the all-time revision; the
   bar graph without data points draws no total *)
CustomersGraphAll ==
  /\ IF forEachThrows(migs)
     THEN error' = "TypeError" /\ UNCHANGED <<result, totalText>>
     ELSE \E series \in {calculateData("customersAll", migs, Num(clock))} :
            /\ result' = series
            /\ totalText' = IF series.dataPoints = <<>> THEN Undefined
                            ELSE Num(grandTotal(series))
            /\ error' = "none"
  /\ UNCHANGED <<migs, clock, retrievalVars, profileVars, appVars, tableVars>>

IngestionsGraphAll ==
  /\ IF forEachThrows(migs)
     THEN error' = "TypeError" /\ UNCHANGED <<result, totalText>>
     ELSE \E series \in {calculateData("ingestionsAll", migs, Num(clock))} :
            /\ result' = series
            /\ totalText' = IF series.dataPoints = <<>> THEN Undefined
                            ELSE Num(grandTotal(series))
            /\ error' = "none"
  /\ UNCHANGED <<migs, clock, retrievalVars, profileVars, appVars, tableVars>>

(* createLineGraph / createTotalIngestionsGraph of lineGraph.js *)
LineGraph ==
  /\ IF scalesThrow("lineGraph", migs)
     THEN error' = "TypeError" /\ UNCHANGED <<result, totalText>>
     ELSE /\ \E dateRange \in DateRanges :
               result' = lineGraph("lineGraph", migs, Num(clock), dateRange)
          /\ totalText' = Undefined
          /\ error' = "none"
  /\ UNCHANGED <<migs, clock, retrievalVars, profileVars, appVars, tableVars>>

TotalIngestionsGraph ==
  /\ IF scalesThrow("totalIngestionsGraph", migs)
     THEN error' = "TypeError" /\ UNCHANGED <<result, totalText>>
     ELSE /\ \E dateRange \in DateRanges :
               result' = lineGraph("totalIngestionsGraph", migs, Num(clock), dateRange)
          /\ totalText' = Undefined
          /\ error' = "none"
  /\ UNCHANGED <<migs, clock, retrievalVars, profileVars, appVars, tableVars>>

Next ==
  \/ Tick
  \/ CustomersGraph60
  \/ IngestionsGraph60
  \/ CustomersGraphAll
  \/ IngestionsGraphAll
  \/ LineGraph
  \/ TotalIngestionsGraph

Spec == Init /\ [][Next]_vars

----------------------------------------------------------------------------
(* The retrieval calls: getCustomerMigrationInfo (api.js),
   getLast30DaysIngestions and getBpaReports (the api.js of the earlier
   revision).  One call at a time: request is the call and the query
   parameters of its URL, response what the network answered, promise the
   promise the call returned. *)

(* An argument left out of the call *)
Omitted == "(omitted)"

SearchArgs == {Omitted, "acme", "LAST_MONTH"}
DateRangeArgs == {Omitted} \cup DateRanges
OrgArgs == {Omitted, "org1"}

(* DateRange.js: the frozen object, key -> value *)
DateRange == [key \in DateRanges \ {"OTHER"} |-> [value |-> key]]

TypeError == [t |-> "TypeError", n |-> 0, items |-> <<>>]

(* A response body that response.json() cannot parse *)
Unparsable == [t |-> "unparsable", n |-> 0, items |-> <<>>]

(* Parsed bodies: [], a list of one record, null *)
Bodies == {Arr(<<>>), Arr(<<Object(1)>>), Null}

Statuses == {200, 404, 500}

Pending == [state |-> "pending", value |-> Undefined]
Fulfilled(value) == [state |-> "fulfilled", value |-> value]
Rejected(reason) == [state |-> "rejected", value |-> reason]

(* getCustomerMigrationInfo(searchBy, dateRange = DateRange.LAST_1_MONTH.value):
   the default is evaluated when dateRange is left out, before the try
   block is entered; reading .value of a key DateRange does not have throws
   a TypeError, which rejects the promise of the async function *)
GetCustomerMigrationInfo ==
  /\ promise.state # "pending"
  /\ \E searchBy \in SearchArgs, dateRange \in DateRangeArgs :
       IF dateRange = Omitted /\ "LAST_1_MONTH" \notin DOMAIN DateRange
       THEN /\ request' = [fn |-> "getCustomerMigrationInfo", searchBy |-> searchBy,
                           dateRange |-> dateRange, params |-> {}]
            /\ promise' = Rejected(TypeError)
       ELSE /\ request' =
                 [fn |-> "getCustomerMigrationInfo", searchBy |-> searchBy,
                  dateRange |-> dateRange,
                  params |->
                    {<<"dateRange", IF dateRange = Omitted
                                    THEN DateRange["LAST_1_MONTH"].value
                                    ELSE dateRange>>}
                    \cup (IF searchBy # Omitted THEN {<<"searchBy", searchBy>>} ELSE {})]
            /\ promise' = Pending
  /\ response' = NoResponse
  /\ UNCHANGED <<graphVars, profileVars, appVars, tableVars>>

GetLast30DaysIngestions ==
  /\ promise.state # "pending"
  /\ request' = [fn |-> "getLast30DaysIngestions", searchBy |-> Omitted,
                 dateRange |-> Omitted, params |-> {}]
  /\ promise' = Pending
  /\ response' = NoResponse
  /\ UNCHANGED <<graphVars, profileVars, appVars, tableVars>>

GetBpaReports ==
  /\ promise.state # "pending"
  /\ \E imsOrgId \in OrgArgs :
       request' = [fn |-> "getBpaReports", searchBy |-> Omitted, dateRange |-> Omitted,
                   params |-> IF imsOrgId # Omitted THEN {<<"imsOrgId", imsOrgId>>}
                              ELSE {}]
  /\ promise' = Pending
  /\ response' = NoResponse
  /\ UNCHANGED <<graphVars, profileVars, appVars, tableVars>>

(* fetch rejects: catch (e) { return []; } *)
NetworkError ==
  /\ promise.state = "pending"
  /\ response' = [kind |-> "networkError", status |-> 0, body |-> Undefined]
  /\ promise' = Fulfilled(Arr(<<>>))
  /\ UNCHANGED <<request, graphVars, profileVars, appVars, tableVars>>

(* if (!response.ok) throw ...; return await response.json(); with the catch
   returning [] *)
HttpResponse ==
  /\ promise.state = "pending"
  /\ \E status \in Statuses, body \in Bodies \cup {Unparsable} :
       /\ response' = [kind |-> "http", status |-> status, body |-> body]
       /\ promise' = IF status \in 200..299 /\ body # Unparsable
                     THEN Fulfilled(body)
                     ELSE Fulfilled(Arr(<<>>))
  /\ UNCHANGED <<request, graphVars, profileVars, appVars, tableVars>>

InitIdle ==
  /\ migs = <<>>
  /\ clock = Clock0
  /\ result = NoResult
  /\ totalText = Undefined
  /\ error = "none"
  /\ IdleRetrieval
  /\ IdleProfile
  /\ IdleApp
  /\ IdleTable

NextApi ==
  \/ GetCustomerMigrationInfo
  \/ GetLast30DaysIngestions
  \/ GetBpaReports
  \/ NetworkError
  \/ HttpResponse

SpecApi == InitIdle /\ [][NextApi]_vars

----------------------------------------------------------------------------

(* The user profile of userProfile.js: cachedUserProfile and fetchPromise
   are the module's two variables, calls[c] is the promise caller c got from
   its last getUserProfile() (via "cache": returned from cachedUserProfile;
   via "fetch": the shared fetchPromise), requests counts the fetches
   issued, inFlight the fetches the network has not answered yet, answer is
   the last answer of the network. *)

(* The profiles the status endpoint can report *)
Profiles == {Object(1), Object(2)}

(* The promise of the fetch in flight *)
FetchPromise == Object(0)

(* What the network answers: a network error, a response that is not ok, a
   body that cannot be parsed, or data with data.profile a profile or absent *)
ProfileResponses ==
  {[ok |-> FALSE, profile |-> Undefined], [ok |-> TRUE, profile |-> Unparsable]}
  \cup {[ok |-> TRUE, profile |-> p] : p \in Profiles \cup {Undefined}}

(* Mutant of fetchStarted: a fetch in flight is never looked at *)
fetchStarted_Never == FALSE

(* if (!fetchPromise) { fetchPromise = (async () => { ... })(); } *)
fetchStarted == Truthy(fetchPromise)

(* Mutant of failureValue: the failure is passed on to the callers *)
failureValue_Rethrown == [state |-> "rejected", value |-> TypeError]

(* return null; both after a response that is not ok and in the catch *)
failureValue == [state |-> "resolved", value |-> Null]

(* Mutant of afterFetch: fetchPromise is reset after a success only *)
afterFetch_KeptOnFailure(stored) == IF stored THEN Null ELSE fetchPromise

(* finally { fetchPromise = null; } *)
afterFetch(stored) == Null

(* Mutant of cacheHit: the cached profile is never looked at *)
cacheHit_Never == FALSE

(* if (cachedUserProfile) return cachedUserProfile; *)
cacheHit == Truthy(cachedUserProfile)

getUserProfile(c) ==
  /\ calls[c].state # "awaiting"
  /\ IF cacheHit
     THEN /\ calls' = [calls EXCEPT ![c] =
                         [state |-> "resolved", value |-> cachedUserProfile,
                          via |-> "cache"]]
          /\ UNCHANGED <<cachedUserProfile, fetchPromise, requests, inFlight, answer>>
     ELSE IF ~fetchStarted
     THEN /\ requests < MaxRequests
          /\ fetchPromise' = FetchPromise
          /\ requests' = requests + 1
          /\ inFlight' = inFlight + 1
          /\ UNCHANGED answer
          /\ calls' = [calls EXCEPT ![c] =
                         [state |-> "awaiting", value |-> Undefined, via |-> "fetch"]]
          /\ UNCHANGED cachedUserProfile
     ELSE /\ calls' = [calls EXCEPT ![c] =
                         [state |-> "awaiting", value |-> Undefined, via |-> "fetch"]]
          /\ UNCHANGED <<cachedUserProfile, fetchPromise, requests, inFlight, answer>>

GetUserProfile(c) ==
  /\ getUserProfile(c)
  /\ UNCHANGED <<graphVars, retrievalVars, appVars, tableVars>>

(* The fetch in flight settles: an ok response with a parsable body stores
   data.profile and resolves to it, everything else resolves to null;
   finally fetchPromise = null *)
profileOutcome(resp) ==
  IF resp.ok /\ resp.profile # Unparsable
  THEN [state |-> "resolved", value |-> resp.profile]
  ELSE failureValue

fetchSettles(resp) ==
  /\ inFlight > 0
  /\ LET stored == resp.ok /\ resp.profile # Unparsable
         outcome == profileOutcome(resp)
     IN /\ cachedUserProfile' = IF stored THEN resp.profile ELSE cachedUserProfile
        /\ calls' = [c \in Callers |->
                       IF calls[c].state = "awaiting"
                       THEN [state |-> outcome.state, value |-> outcome.value,
                             via |-> "fetch"]
                       ELSE calls[c]]
        /\ fetchPromise' = afterFetch(stored)
        /\ answer' = resp
  /\ inFlight' = inFlight - 1
  /\ UNCHANGED requests

FetchSettles ==
  /\ \E resp \in ProfileResponses : fetchSettles(resp)
  /\ UNCHANGED <<graphVars, retrievalVars, appVars, tableVars>>

NextProfile ==
  \/ \E c \in Callers : GetUserProfile(c)
  \/ FetchSettles

SpecProfile == InitIdle /\ [][NextProfile]_vars

----------------------------------------------------------------------------

(* MigrationsApp: the controller of the migration-admin page ("admin") and
   the controller of migrations/main.js ("tracker").  page is what the page
   was opened with; app is the MigrationsApp and the part of the document it
   writes; searches[c] is the c-th invocation of startMigrationSearch, which
   asks getUserProfile as caller c.  Customers are named by their rank in
   alphabetical order, NoTenant standing for a record without a name. *)

Variants == {"admin", "tracker"}

Pages ==
  [variant : Variants, isLocalhost : BOOLEAN, email : BOOLEAN, name : BOOLEAN,
   select : BOOLEAN]

(* this.userProfile = { email, name } *)
LocalProfile == Object(3)

NoTenant == 0

(* What an awaited retrieval call can yield: a rejection, a parsed body
   that is no array, [], a list of two named records, and a list of two
   records without a name *)
DataBodies == {Arr(<<>>), Arr(<<2, 1>>), Arr(<<NoTenant, NoTenant>>), Null}
DataOutcomes(variant) ==
  {Fulfilled(b) : b \in DataBodies}
  \cup (IF variant = "tracker" THEN {Rejected(TypeError)} ELSE {})

(* The values of the customer-search input: empty, or the name of customer 1 *)
SearchTerms == {NoTenant, 1}

(* Mutant of setupUserProfile: missing parameters only raise the alert *)
setupUserProfile_AlertOnly(pg) ==
  [userProfile |-> IF pg.isLocalhost /\ pg.email /\ pg.name
                   THEN LocalProfile ELSE Null,
   thrown |-> FALSE]

(* setupUserProfile: on localhost the email and name parameters make the
   profile; in the admin page their absence disables the UI and throws, in
   the tracker it raises an alert and nothing else *)
setupUserProfile(pg) ==
  [userProfile |-> IF pg.isLocalhost /\ pg.email /\ pg.name
                   THEN LocalProfile ELSE Null,
   thrown |-> pg.variant = "admin" /\ pg.isLocalhost /\ ~(pg.email /\ pg.name)]

(* disableUI: the search input and the search button disabled, the
   access-denied message in the container *)
disableUI(a) == [a EXCEPT !.disabled = TRUE, !.container = "access-denied"]

(* setupEventListeners *)
setupEventListeners(pg) ==
  IF pg.variant = "admin" THEN {"click", "input", "keydown"} ELSE {"input"}

(* items.sort((a, b) => a.customerName.localeCompare(b.customerName)) throws
   when the comparator reads the name of a record that has none; with fewer
   than two records the comparator is not called.  Which record of a pair
   the engine passes as a is its own choice, so the lists drawn either name
   every record or none. *)
sortThrows(items) ==
  Len(items) >= 2 /\ \E i \in DOMAIN items : items[i] = NoTenant

RECURSIVE insertByName(_, _)
insertByName(sorted, x) ==
  IF sorted = <<>> THEN <<x>>
  ELSE IF x < Head(sorted) THEN <<x>> \o sorted
  ELSE <<Head(sorted)>> \o insertByName(Tail(sorted), x)

RECURSIVE sortByName(_)
sortByName(items) ==
  IF items = <<>> THEN <<>>
  ELSE Only({insertByName(rest, items[Len(items)]) :
             rest \in {sortByName(SubSeq(items, 1, Len(items) - 1))}})

(* filterMigrations(searchTerm): the records whose name contains the term,
   all of them for an empty term; initTable(filtered) puts the table in the
   container, under a header without a range *)
filterMigrations(a, term) ==
  [a EXCEPT !.rows = IF term = NoTenant THEN a.migrations.items
                     ELSE SelectSeq(a.migrations.items,
                                    LAMBDA m : m # NoTenant /\ m = term),
            !.container = "table",
            !.header = "none"]

(* The finally of the admin startMigrationSearch *)
hideSpinner(a) == [a EXCEPT !.loading = FALSE, !.spinnerHidden = TRUE]

(* The request of getCustomerMigrationInfo(searchBy, dateRange): a TypeError
   when dateRange is left out and DateRange has no LAST_1_MONTH, else the
   query parameters *)
customerMigrationInfoRequest(searchBy, dateRange) ==
  IF dateRange = Omitted /\ "LAST_1_MONTH" \notin DOMAIN DateRange
  THEN TypeError
  ELSE [fn |-> "getCustomerMigrationInfo",
        params |->
          {<<"dateRange", IF dateRange = Omitted
                          THEN DateRange["LAST_1_MONTH"].value
                          ELSE dateRange>>}
          \cup (IF searchBy # Omitted THEN {<<"searchBy", searchBy>>} ELSE {})]

(* Mutant of searchCall: the selected range passed as dateRange *)
searchCall_AsDateRange(selectedRange, userProfile) ==
  [fn |-> "getCustomerMigrationInfo", searchBy |-> Omitted,
   dateRange |-> selectedRange, userProfile |-> userProfile]

(* getCustomerMigrationInfo(selectedRange): the call of the admin search,
   with the profile the app has when it is made *)
searchCall(selectedRange, userProfile) ==
  [fn |-> "getCustomerMigrationInfo", searchBy |-> selectedRange,
   dateRange |-> Omitted, userProfile |-> userProfile]

(* The catch of the admin startMigrationSearch for an error other than
   'User not logged in', and its finally *)
searchFailed(a, s) ==
  [app |-> hideSpinner([a EXCEPT !.container = "failed"]),
   search |-> [s EXCEPT !.pc = "done", !.outcome = "failed"]]

(* The admin startMigrationSearch from the loading state to the await of
   getCustomerMigrationInfo *)
adminFetch(a, s, pg) ==
  Only({Only({Only({IF req = TypeError
                    THEN searchFailed([shown EXCEPT !.dataCalls = Append(@, call)],
                                      [s EXCEPT !.selectedRange = selectedRange,
                                                !.call = call])
                    ELSE [app |-> [shown EXCEPT !.dataCalls = Append(@, call),
                                                !.dataRequests = Append(@, req)],
                          search |-> [s EXCEPT !.pc = "awaitData",
                                               !.selectedRange = selectedRange,
                                               !.call = call,
                                               !.request = req]] :
                    req \in {customerMigrationInfoRequest(call.searchBy,
                                                          call.dateRange)}}) :
              call \in {searchCall(selectedRange, a.userProfile)}}) :
        shown \in {[a EXCEPT !.loading = TRUE, !.spinnerHidden = FALSE,
                             !.graphs = "none", !.container = "table",
                             !.rows = <<>>, !.header = "none"]},
        selectedRange \in {IF pg.select THEN a.selected ELSE "LAST_MONTH"}})

(* Mutant of loggedIn: any profile passes, also none *)
loggedIn_Always(a) == TRUE

(* if (!this.userProfile) ... throw new Error('User not logged in') *)
loggedIn(a) == Truthy(a.userProfile)

(* startMigrationSearch after ensureUserProfile has got this.userProfile:
   the admin page checks the profile, the tracker does not *)
afterProfile(a, s, pg) ==
  IF pg.variant = "admin"
  THEN IF ~loggedIn(a)
       THEN [app |-> hideSpinner([a EXCEPT !.container = "not-logged-in"]),
             search |-> [s EXCEPT !.pc = "done", !.outcome = "not-logged-in"]]
       ELSE adminFetch(a, s, pg)
  ELSE Only({[app |-> [a EXCEPT !.container = "table", !.rows = <<>>,
                                !.dataCalls = Append(@, call),
                                !.dataRequests =
                                  Append(@, [fn |-> call.fn, params |-> {}])],
              search |-> [s EXCEPT !.pc = "awaitData", !.call = call,
                                   !.request = [fn |-> call.fn, params |-> {}]]] :
             call \in {[fn |-> "getAllMigrations", searchBy |-> Omitted,
                        dateRange |-> Omitted, userProfile |-> a.userProfile]}})

(* ensureUserProfile after getUserProfile has settled: a rejection puts the
   message of the catch in the container and ends the search; a value
   becomes this.userProfile *)
resume(a, s, outcome, pg) ==
  IF outcome.state = "rejected"
  THEN IF pg.variant = "admin"
       THEN [app |-> hideSpinner([a EXCEPT !.container = "not-logged-in"]),
             search |-> [s EXCEPT !.pc = "done", !.outcome = "not-logged-in"]]
       ELSE [app |-> [a EXCEPT !.container = "failed"],
             search |-> [s EXCEPT !.pc = "done", !.outcome = "failed"]]
  ELSE afterProfile([a EXCEPT !.userProfile = outcome.value], s, pg)

(* Every search waiting for the profile goes on, in the order of the calls *)
RECURSIVE resumeAll(_, _, _, _, _)
resumeAll(a, ss, c, outcome, pg) ==
  IF c > MaxCallers THEN [app |-> a, searches |-> ss]
  ELSE IF ss[c].pc # "awaitProfile" THEN resumeAll(a, ss, c + 1, outcome, pg)
  ELSE Only({resumeAll(r.app, [ss EXCEPT ![c] = r.search], c + 1, outcome, pg) :
             r \in {resume(a, ss[c], outcome, pg)}})

(* The admin startMigrationSearch once getCustomerMigrationInfo has
   resolved: the body normalised to an array, sorted by customerName,
   filtered by the search term, the header named after the range, the
   summary and the graphs drawn; any throw ends in the catch *)
adminRender(a, s, resp) ==
  Only({IF sortThrows(migrations.items) \/ s.selectedRange \notin DOMAIN DateRange
        THEN searchFailed([a EXCEPT !.migrations = migrations], s)
        ELSE [app |-> hideSpinner(
                        [filterMigrations(
                           [a EXCEPT !.migrations = Arr(sortByName(migrations.items))],
                           a.term)
                         EXCEPT !.header = s.selectedRange,
                                !.graphs = s.selectedRange]),
              search |-> [s EXCEPT !.pc = "done", !.outcome = "rendered"]] :
        migrations \in {IF IsArray(resp) THEN resp ELSE Arr(<<>>)}})

(* The tracker startMigrationSearch once getAllMigrations has settled:
   this.migrations = the value, sorted by tenant and put in the table; a
   rejection and any throw end in the catch *)
trackerRender(a, s, outcome) ==
  IF outcome.state = "rejected"
  THEN [app |-> [a EXCEPT !.container = "failed"],
        search |-> [s EXCEPT !.pc = "done", !.outcome = "failed"]]
  ELSE IF ~IsArray(outcome.value) \/ sortThrows(outcome.value.items)
  THEN [app |-> [a EXCEPT !.migrations = outcome.value, !.container = "failed"],
        search |-> [s EXCEPT !.pc = "done", !.outcome = "failed"]]
  ELSE Only({[app |-> [a EXCEPT !.migrations = Arr(sorted), !.rows = sorted,
                                !.container = "table"],
              search |-> [s EXCEPT !.pc = "done", !.outcome = "rendered"]] :
             sorted \in {sortByName(outcome.value.items)}})

(* With the DateRange of DateRange.js no admin search gets as far as a
   request, so only the tracker has a retrieval call to settle *)
settleData(a, s, pg, outcome) ==
  IF pg.variant = "admin" THEN adminRender(a, s, outcome.value)
  ELSE trackerRender(a, s, outcome)

(* A page is opened *)
InitApp ==
  /\ migs = <<>>
  /\ clock = Clock0
  /\ result = NoResult
  /\ totalText = Undefined
  /\ error = "none"
  /\ IdleRetrieval
  /\ IdleProfile
  /\ page \in Pages
  /\ app = NoApp
  /\ searches = [c \in Callers |-> NoSearch]
  /\ IdleTable

(* startMigrationSearch up to its first suspension: ensureUserProfile asks
   getUserProfile when this.userProfile is empty; with a profile at hand
   the search runs on to the retrieval call *)
startMigrationSearch(c, a0) ==
  \E s0 \in {[NoSearch EXCEPT
                !.pc = "start", !.order = a0.started + 1,
                !.during = {d \in Callers :
                              searches[d].pc \in {"awaitProfile", "awaitData"}}]},
     a1 \in {[a0 EXCEPT !.started = @ + 1]} :
    IF Truthy(a1.userProfile)
    THEN /\ \E r \in {afterProfile(a1, s0, page)} :
              /\ app' = r.app
              /\ searches' = [searches EXCEPT ![c] = r.search]
         /\ UNCHANGED profileVars
    ELSE /\ getUserProfile(c)
         /\ IF cacheHit
            THEN \E r \in {afterProfile([a1 EXCEPT !.userProfile = cachedUserProfile],
                                        s0, page)} :
                   /\ app' = r.app
                   /\ searches' = [searches EXCEPT ![c] = r.search]
            ELSE /\ app' = a1
                 /\ searches' = [searches EXCEPT ![c] =
                                   [s0 EXCEPT !.pc = "awaitProfile"]]

(* new MigrationsApp(): init runs setupUserProfile and, unless it threw,
   setupEventListeners; the tracker then starts its search *)
NewMigrationsApp ==
  /\ ~app.constructed
  /\ \E u \in {setupUserProfile(page)} :
       IF u.thrown
       THEN /\ app' = disableUI([app EXCEPT !.constructed = TRUE])
            /\ UNCHANGED <<searches, profileVars>>
       ELSE \E a0 \in {[app EXCEPT !.constructed = TRUE,
                                   !.userProfile = u.userProfile,
                                   !.listeners = setupEventListeners(page)]} :
              IF page.variant = "tracker"
              THEN startMigrationSearch(1, a0)
              ELSE /\ app' = a0
                   /\ UNCHANGED <<searches, profileVars>>
  /\ UNCHANGED <<page, graphVars, retrievalVars, tableVars>>

(* The user clicks the search button; a disabled button dispatches nothing *)
Click ==
  /\ app.constructed
  /\ app.events < MaxEvents
  /\ IF "click" \in app.listeners /\ ~app.disabled
     THEN /\ app.started < MaxCallers
          /\ startMigrationSearch(app.started + 1, [app EXCEPT !.events = @ + 1])
     ELSE /\ app' = [app EXCEPT !.events = @ + 1]
          /\ UNCHANGED <<searches, profileVars>>
  /\ UNCHANGED <<page, graphVars, retrievalVars, tableVars>>

(* The user presses Enter somewhere on the page *)
Enter ==
  /\ app.constructed
  /\ app.events < MaxEvents
  /\ IF "keydown" \in app.listeners
     THEN /\ app.started < MaxCallers
          /\ startMigrationSearch(app.started + 1, [app EXCEPT !.events = @ + 1])
     ELSE /\ app' = [app EXCEPT !.events = @ + 1]
          /\ UNCHANGED <<searches, profileVars>>
  /\ UNCHANGED <<page, graphVars, retrievalVars, tableVars>>

(* The user edits the customer-search input: the admin page shows the
   spinner and filters two animation frames later, the tracker filters at
   once (this.migrations.filter throws when this.migrations is no array) *)
Input ==
  /\ app.constructed
  /\ app.events < MaxEvents
  /\ \E term \in SearchTerms :
       \E a0 \in {[app EXCEPT !.events = @ + 1,
                              !.term = IF app.disabled THEN @ ELSE term,
                              !.edited = ~app.disabled \/ @]} :
         app' = IF "input" \notin a0.listeners \/ a0.disabled THEN a0
                ELSE IF page.variant = "admin"
                THEN [a0 EXCEPT !.loading = TRUE, !.spinnerHidden = FALSE,
                                !.outer = TRUE]
                ELSE IF IsArray(a0.migrations) THEN filterMigrations(a0, a0.term)
                ELSE a0
  /\ UNCHANGED <<page, searches, graphVars, retrievalVars, profileVars, tableVars>>

(* The user picks another date range *)
SelectRange ==
  /\ app.constructed
  /\ page.select
  /\ app.events < MaxEvents
  /\ \E r \in DOMAIN DateRange :
       /\ r # app.selected
       /\ app' = [app EXCEPT !.events = @ + 1, !.selected = r]
  /\ UNCHANGED <<page, searches, graphVars, retrievalVars, profileVars, tableVars>>

(* An animation frame: the inner callbacks filter, draw the summary and hide
   the spinner; the outer callbacks request the inner ones *)
Frame ==
  /\ app.outer \/ app.inner
  /\ \E a0 \in {IF app.inner THEN hideSpinner(filterMigrations(app, app.term))
                ELSE app} :
       app' = [a0 EXCEPT !.inner = app.outer, !.outer = FALSE]
  /\ UNCHANGED <<page, searches, graphVars, retrievalVars, profileVars, tableVars>>

(* The fetch of the profile settles and every search waiting for it goes on *)
ProfileSettles ==
  /\ \E resp \in ProfileResponses :
       /\ fetchSettles(resp)
       /\ \E r \in {resumeAll(app, searches, 1, profileOutcome(resp), page)} :
            /\ app' = r.app
            /\ searches' = r.searches
  /\ UNCHANGED <<page, graphVars, retrievalVars, tableVars>>

(* The retrieval call of a search settles *)
DataSettles ==
  /\ \E c \in Callers :
       /\ searches[c].pc = "awaitData"
       /\ \E outcome \in DataOutcomes(page.variant) :
            \E r \in {settleData(app, searches[c], page, outcome)} :
              /\ app' = r.app
              /\ searches' = [searches EXCEPT ![c] = r.search]
  /\ UNCHANGED <<page, graphVars, retrievalVars, profileVars, tableVars>>

NextApp ==
  \/ NewMigrationsApp
  \/ Click
  \/ Enter
  \/ Input
  \/ SelectRange
  \/ Frame
  \/ ProfileSettles
  \/ DataSettles

SpecApp == InitApp /\ [][NextApp]_vars

----------------------------------------------------------------------------

(* MigrationsTable: the table of the admin page
   (migration-admin/migrationsTable.js, "admin") and the table of
   migrations/migrationsTable.js ("tracker").  table.headers holds the
   pairs <<column, sort class>> of the headers that carry a sort class,
   table.rows the rendered rows, table.data the list the header listeners
   were given.  A record is [customerName, totalIngestions], a name being
   its rank in alphabetical order. *)

TableVariants == {"admin", "tracker"}

(* TABLE_CONFIG.DEFAULT_SORT_COLUMN and a second column *)
DefaultSortColumn == "customerName"
Columns == {"customerName", "totalIngestions"}

(* Bounds of the lists given to the table *)
MaxRows == 2
MaxNames == 2
MaxTotal == 1

Rows == [customerName : 1..MaxNames, totalIngestions : 0..MaxTotal]

(* The lists the controllers pass to initTable: sorted by name *)
TableInputs ==
  {l \in UNION {[1..n -> Rows] : n \in 0..MaxRows} :
     \A i \in 1..(Len(l) - 1) : l[i].customerName <= l[i + 1].customerName}

(* The comparator of sortTable: negative, zero or positive *)
compareRows(a, b, key, direction) ==
  IF direction = "asc" THEN a[key] - b[key] ELSE b[key] - a[key]

RECURSIVE insertRow(_, _, _, _)
insertRow(sorted, x, key, direction) ==
  IF sorted = <<>> THEN <<x>>
  ELSE IF compareRows(x, sorted[Len(sorted)], key, direction) >= 0
  THEN Append(sorted, x)
  ELSE Append(insertRow(SubSeq(sorted, 1, Len(sorted) - 1), x, key, direction),
              sorted[Len(sorted)])

(* sortTable(data, key, direction): a sorted copy, equal keys in the order
   of the data *)
RECURSIVE sortTable(_, _, _)
sortTable(data, key, direction) ==
  IF data = <<>> THEN <<>>
  ELSE Only({insertRow(rest, data[Len(data)], key, direction) :
             rest \in {sortTable(SubSeq(data, 1, Len(data) - 1), key, direction)}})

(* toggleSortDirection *)
toggled(direction) == IF direction = "asc" THEN "desc" ELSE "asc"

(* Mutant of initialClass: the class follows this.sortDirection *)
initialClass_OfDirection(direction) ==
  IF direction = "asc" THEN "sorted-asc" ELSE "sorted-desc"

(* initTable marks the default column with CSS_CLASSES.TABLE.SORTED_ASC *)
initialClass(direction) == "sorted-asc"

(* A table whose kind is known, not built yet *)
InitTables ==
  /\ migs = <<>>
  /\ clock = Clock0
  /\ result = NoResult
  /\ totalText = Undefined
  /\ error = "none"
  /\ IdleRetrieval
  /\ IdleProfile
  /\ IdleApp
  /\ table \in {[NoTable EXCEPT !.variant = v] : v \in TableVariants}

(* initTable(migrations): a new table with new headers; the admin table
   renders the list sorted by the default column in this.sortDirection; the
   tracker table renders that, toggles this.sortDirection and renders the
   list as given *)
InitTable ==
  /\ \E migrations \in TableInputs :
       table' =
         [table EXCEPT
            !.headers = {<<DefaultSortColumn, initialClass(table.sortDirection)>>},
            !.data = migrations,
            !.built = TRUE,
            !.rows = IF table.variant = "admin"
                     THEN sortTable(migrations, DefaultSortColumn,
                                    table.sortDirection)
                     ELSE migrations,
            !.sortDirection = IF table.variant = "admin" THEN @ ELSE toggled(@)]
  /\ UNCHANGED <<graphVars, retrievalVars, profileVars, appVars>>

(* enableSorting *)
EnableSorting ==
  /\ table' = [table EXCEPT !.isSortingEnabled = TRUE]
  /\ UNCHANGED <<graphVars, retrievalVars, profileVars, appVars>>

(* A click on the header of a column: nothing while sorting is not enabled;
   else descending when the header carries sorted-asc and ascending
   otherwise, the classes removed from all headers, the list of initTable
   sorted and rendered, the class added to the header *)
ClickHeader ==
  /\ table.built
  /\ \E columnKey \in Columns :
       IF ~table.isSortingEnabled THEN UNCHANGED table
       ELSE \E newDirection \in {IF <<columnKey, "sorted-asc">> \in table.headers
                                 THEN "desc" ELSE "asc"} :
              table' =
                [table EXCEPT
                   !.headers = {<<columnKey, IF newDirection = "asc"
                                             THEN "sorted-asc"
                                             ELSE "sorted-desc">>},
                   !.rows = sortTable(table.data, columnKey, newDirection),
                   !.sortDirection = newDirection]
  /\ UNCHANGED <<graphVars, retrievalVars, profileVars, appVars>>

NextTable ==
  \/ InitTable
  \/ EnableSorting
  \/ ClickHeader

SpecTable == InitTables /\ [][NextTable]_vars

----------------------------------------------------------------------------

(* Vocabulary of the properties *)

(* The positions <<record, index>> of the entries of the timestamp lists *)
Events(ms) ==
  UNION {{<<i, j>> : j \in DOMAIN ms[i].ingestionStartDates.items} : i \in DOMAIN ms}

TimestampAt(ms, e) == ms[e[1]].ingestionStartDates.items[e[2]]

NameAt(ms, e) == ms[e[1]].customerName

RemoveAt(s, j) == SubSeq(s, 1, j - 1) \o SubSeq(s, j + 1, Len(s))

(* The record list without the entry at position e *)
WithoutEvent(ms, e) ==
  [ms EXCEPT ![e[1]].ingestionStartDates.items = RemoveAt(@, e[2])]

(* daysAgo = floor((now - t) / 86400000) of an integer timestamp *)
DaysAgo(t, now) == (now - t) \div DAY

IsTimestamp(v) == v.t = "number"

InLast60Days(v, now) ==
  IsTimestamp(v) /\ DaysAgo(v.n, now) >= 0 /\ DaysAgo(v.n, now) < 60

Counts(points) == [i \in DOMAIN points |-> points[i].count]

IsBarSeries == result.fn \in BarVariants /\ result.dataPoints # <<>>

----------------------------------------------------------------------------
(* C1: in every fixed-bucket aggregation an integer timestamp with
   0 <= daysAgo < 60 is counted in exactly one bucket, the one at index
   floor(daysAgo / 10) of '1-10' .. '51-60' (daysAgo = 10 goes to '11-20'):
   the event puts its customer into that bucket's set and into no other, or
   raises that bucket's event count by one and no other. *)
C1_BucketIsFloorOfDaysAgoBy10 ==
  result.fn \in BarVariants =>
    \A e \in Events(migs) :
      LET v == TimestampAt(migs, e)
          now == result.now.n
      IN InLast60Days(v, now) =>
           LET k == DaysAgo(v.n, now) \div 10 + 1
               without == WithoutEvent(migs, e)
           IN /\ Len(result.dataPoints) = 6
              /\ result.dataPoints[k].range =
                   <<"1-10", "11-20", "21-30", "31-40", "41-50", "51-60">>[k]
              /\ IF result.fn \in CustomerVariants
                 THEN LET with == customersPerRange(migs, result.now, result.fn)
                          before == customersPerRange(without, result.now, result.fn)
                      IN /\ with[k] = before[k] \cup {NameAt(migs, e)}
                         /\ \A r \in Ranges \ {k} : with[r] = before[r]
                         /\ \A r \in Ranges :
                              result.dataPoints[r].count = Cardinality(with[r])
                 ELSE LET before == calculateData(result.fn, without, result.now)
                      IN /\ result.dataPoints[k].count = before.dataPoints[k].count + 1
                         /\ \A r \in Ranges \ {k} :
                              result.dataPoints[r].count = before.dataPoints[r].count

(* Witness of C1: a single timestamp exactly 10 days old, counted in '11-20'
   and not in '1-10' *)
C1_Witness ==
  /\ result.fn = "ingestionsAll"
  /\ Len(migs) = 1
  /\ migs[1].ingestionStartDates.items = <<Num(result.now.n - 10 * DAY)>>
  /\ result.dataPoints # <<>>
  /\ result.dataPoints[2].count = 1
  /\ result.dataPoints[1].count = 0

(* C2: in the 60-day aggregations of graph.js a timestamp is counted in some
   bucket if and only if 0 <= daysAgo < 60: the event counts add up to the
   number of timestamps in that window, and the customers counted are those
   with a timestamp in it; a future timestamp and one of 60 days or more
   (also exactly now - 60 days) is counted in no bucket. *)
C2_CountedIffWithin60Days ==
  (result.fn \in Variants60
     /\ \A e \in Events(migs) : IsTimestamp(TimestampAt(migs, e))) =>
    LET inWindow == {e \in Events(migs) : InLast60Days(TimestampAt(migs, e), result.now.n)}
    IN IF result.fn = "ingestions60"
       THEN SumSeq(Counts(result.dataPoints)) = Cardinality(inWindow)
       ELSE LET perRange == customersPerRange(migs, result.now, result.fn)
            IN /\ UNION {perRange[r] : r \in Ranges} = {NameAt(migs, e) : e \in inWindow}
               /\ \A r \in DOMAIN result.dataPoints :
                    result.dataPoints[r].count = Cardinality(perRange[r])

(* Witness of C2: a timestamp of exactly now - 60 days next to one 5 days old;
   only the latter is counted *)
C2_Witness ==
  /\ result.fn = "ingestions60"
  /\ Len(migs) = 1
  /\ migs[1].ingestionStartDates.items =
       <<Num(result.now.n - 60 * DAY), Num(Clock0 - 5 * DAY)>>
  /\ SumSeq(Counts(result.dataPoints)) = 1
  /\ result.dataPoints[1].count = 1

(* The record list with one more occurrence of value v in record i *)
WithRepeatedDate(ms, i, v) ==
  [ms EXCEPT ![i].ingestionStartDates.items = Append(@, v)]

SameSeries(a, b) ==
  /\ a.dataPoints = b.dataPoints
  /\ a.maxCount = b.maxCount
  /\ a.totalUniqueCustomers = b.totalUniqueCustomers

(* C3: unique-customer aggregation is idempotent under duplicates: one more
   occurrence of a (customerName, timestamp) pair of the list, as a repeated
   timestamp in its record or as a further record of the same customer,
   leaves every bucket count, maxCount and totalUniqueCustomers unchanged. *)
C3_DuplicatePairChangesNothing ==
  result.fn \in CustomerVariants =>
    \A e \in Events(migs) :
      LET v == TimestampAt(migs, e)
          again == Rec(NameAt(migs, e), Arr(<<v>>), Undefined, Undefined)
      IN /\ SameSeries(calculateData(result.fn, WithRepeatedDate(migs, e[1], v),
                                     result.now), result)
         /\ SameSeries(calculateData(result.fn, Append(migs, again), result.now),
                       result)

(* Witness of C3: the same customer with the same counted timestamp in two
   records, counted once *)
C3_Witness ==
  /\ result.fn = "customersAll"
  /\ Len(migs) = 2
  /\ migs[1] = migs[2]
  /\ Len(migs[1].ingestionStartDates.items) = 1
  /\ result.dataPoints # <<>>
  /\ result.dataPoints[1].count = 1
  /\ result.totalUniqueCustomers = Num(1)

(* The buckets the customers graph gives the timestamps of customer name *)
BucketsOfCustomer(name) ==
  {bucketOf(result.fn, TimestampAt(migs, e), result.now) :
     e \in {x \in Events(migs) : NameAt(migs, x) = name}} \ {NoBucket}

(* C4: totalUniqueCustomers is the number of distinct customer names counted
   in at least one bucket; it is at most the sum of the six bucket counts and
   equals it exactly when no customer is counted in more than one bucket. *)
C4_TotalUniqueCustomers ==
  (result.fn = "customersAll" /\ result.dataPoints # <<>>) =>
    LET names == {migs[i].customerName : i \in DOMAIN migs}
        counted == {name \in names : BucketsOfCustomer(name) # {}}
        total == result.totalUniqueCustomers
        sum == SumSeq(Counts(result.dataPoints))
    IN /\ total = Num(Cardinality(counted))
       /\ total.n <= sum
       /\ (total.n = sum) <=>
            (\A name \in names : Cardinality(BucketsOfCustomer(name)) <= 1)

(* Witness of C4: a customer counted in two buckets, so that the total is
   below the sum of the bars *)
C4_Witness ==
  /\ result.fn = "customersAll"
  /\ result.dataPoints # <<>>
  /\ \E i \in DOMAIN migs : Cardinality(BucketsOfCustomer(migs[i].customerName)) = 2
  /\ result.totalUniqueCustomers.n < SumSeq(Counts(result.dataPoints))

(* C5: with a fixed now, A: [now-5d], A: [now-5d, now-25d], B: [now-25d]
   aggregates to '1-10' = 1, '21-30' = 2, the other four buckets = 0, and
   totalUniqueCustomers = 2. *)
C5_Example ==
  (result.fn \in CustomerVariants /\ migs = ExampleList(result.now.n)) =>
    /\ Counts(result.dataPoints) = <<1, 0, 2, 0, 0, 0>>
    /\ result.fn = "customersAll" => result.totalUniqueCustomers = Num(2)

(* Witness of C5: the example has been aggregated by the customers graph that
   reports a total *)
C5_Witness ==
  /\ result.fn = "customersAll"
  /\ migs = ExampleList(result.now.n)
  /\ result.dataPoints # <<>>

(* C6: a non-empty series of a fixed-bucket aggregation has exactly the 6
   points '1-10','11-20','21-30','31-40','41-50','51-60' in this order,
   whatever the counts. *)
C6_SixPointsInFixedOrder ==
  IsBarSeries =>
    [i \in DOMAIN result.dataPoints |-> result.dataPoints[i].range]
      = <<"1-10", "11-20", "21-30", "31-40", "41-50", "51-60">>

(* Witness of C6: a series whose later bucket counts more than its first one,
   with empty buckets in between *)
C6_Witness ==
  /\ IsBarSeries
  /\ Len(result.dataPoints) = 6
  /\ result.dataPoints[1].count = 1
  /\ result.dataPoints[2].count = 0
  /\ result.dataPoints[3].count = 2

(* C7: in a non-empty series of a fixed-bucket aggregation maxCount is the
   largest of the six counts when that is positive and 1 when all counts are
   0, so maxCount >= 1 and no count exceeds maxCount. *)
C7_MaxCountFlooredToOne ==
  IsBarSeries =>
    LET counts == Counts(result.dataPoints)
        positive == \E i \in DOMAIN counts : counts[i] > 0
    IN /\ result.maxCount >= 1
       /\ \A i \in DOMAIN counts : counts[i] <= result.maxCount
       /\ positive => \E i \in DOMAIN counts : counts[i] = result.maxCount
       /\ ~positive => result.maxCount = 1

(* Witness of C7: six points, all of count 0, and maxCount 1 *)
C7_Witness ==
  /\ IsBarSeries
  /\ \A i \in DOMAIN result.dataPoints : result.dataPoints[i].count = 0
  /\ result.maxCount = 1

(* C8: in the month-indexed series of lineGraph.js the maxCount that scales
   the y axis is max(counts) floored to 1: whenever a month point is
   produced, maxCount >= 1.  (createTotalIngestionsGraph takes
   Math.max(...counts) as it is.) *)
C8_MonthMaxCountAtLeastOne ==
  (result.fn \in LineFns /\ result.dataPoints # <<>>) => result.maxCount >= 1

(* No record of the list has an ingestion timestamp: the list is missing, is
   no array or is empty *)
NoQualifyingRecord ==
  \A i \in DOMAIN migs :
    ~IsArray(migs[i].ingestionStartDates) \/ migs[i].ingestionStartDates.items = <<>>

(* C9: for a record list that is empty or has no record with an ingestion
   timestamp, a fixed-bucket aggregation returns the empty series
   (dataPoints = [], maxCount = 0), never six points of count 0.
   (calculateData keeps a record whose ingestionStartDates is [].) *)
C9_NoTimestampsGivesEmptySeries ==
  (result.fn \in BarVariants /\ NoQualifyingRecord) =>
    (result.dataPoints = <<>> /\ result.maxCount = 0)

(* C10: in every day-range aggregation an entry of a timestamp list that is
   null, undefined or not numeric is in no bucket: the series and the
   customer Sets are those of the list without the entry.  (The all-time
   revision computes now - null = now and counts null in '51-60'.) *)
C10_InvalidTimestampInNoBucket ==
  result.fn \in BarVariants =>
    \A e \in Events(migs) :
      ~IsTimestamp(TimestampAt(migs, e)) =>
        /\ SameSeries(calculateData(result.fn, WithoutEvent(migs, e), result.now),
                      result)
        /\ result.fn \in CustomerVariants =>
             customersPerRange(WithoutEvent(migs, e), result.now, result.fn)
               = customersPerRange(migs, result.now, result.fn)

(* Every entry of every timestamp list is an integer timestamp *)
AllTimestamps == \A e \in Events(migs) : IsTimestamp(TimestampAt(migs, e))

(* C11: in the all-time aggregations daysAgo >= 0 is the only exclusion: a
   timestamp t <= now is never dropped for being old, every event with
   daysAgo >= 50, however old, is counted in the last bucket '51-60', and
   the six event counts add up to the number of timestamps with t <= now
   (for the customers graph: the customers counted are those with a
   timestamp t <= now). *)
C11_AllTimeHasNoUpperBound ==
  (result.fn \in VariantsAll /\ result.dataPoints # <<>> /\ AllTimestamps) =>
    LET now == result.now.n
        past == {e \in Events(migs) : TimestampAt(migs, e).n <= now}
        old == {e \in past : DaysAgo(TimestampAt(migs, e).n, now) >= 50}
    IN IF result.fn = "ingestionsAll"
       THEN /\ SumSeq(Counts(result.dataPoints)) = Cardinality(past)
            /\ result.dataPoints[6].count = Cardinality(old)
       ELSE LET perRange == customersPerRange(migs, result.now, result.fn)
            IN /\ UNION {perRange[r] : r \in Ranges} = {NameAt(migs, e) : e \in past}
               /\ perRange[6] = {NameAt(migs, e) : e \in old}
               /\ \A r \in Ranges : result.dataPoints[r].count = Cardinality(perRange[r])

(* Witness of C11: a timestamp 200 days old next to one 5 days old, both
   counted, the old one in '51-60' *)
C11_Witness ==
  /\ result.fn = "ingestionsAll"
  /\ Len(migs) = 1
  /\ migs[1].ingestionStartDates.items =
       <<Num(result.now.n - 200 * DAY), Num(Clock0 - 5 * DAY)>>
  /\ result.dataPoints # <<>>
  /\ result.dataPoints[6].count = 1
  /\ SumSeq(Counts(result.dataPoints)) = 2

(* A record with a valid lastIngestion: a number > 0 *)
HasValidLast(m) == m.lastIngestion.t = "number" /\ m.lastIngestion.n > 0

(* The UTC year and month a record's lastIngestion falls in *)
MonthOfRecord(m) ==
  LET date == CivilFromDays(m.lastIngestion.n \div DAY)
  IN [year |-> date.year, month |-> date.month]

MonthsOfRecords(ms) ==
  {MonthOfRecord(ms[i]) : i \in {j \in DOMAIN ms : HasValidLast(ms[j])}}

MonthsOfPoints(points) == {points[i].monthKey : i \in DOMAIN points}

(* C12: in both month-indexed kinds every record with a valid lastIngestion
   contributes to the point of its UTC year-month (0 to the volume sum when
   its totalIngestions is absent or not numeric): the months of the points
   produced are exactly the months in which a record with valid
   lastIngestion falls.  (createTotalIngestionsGraph filters out a record
   whose totalIngestions is absent or 0, and its month with it.) *)
C12_MonthPointsAreMonthsOfRecords ==
  result.fn \in LineFns =>
    MonthsOfPoints(result.dataPoints) = MonthsOfRecords(migs)

(* What a record adds to the ingestion volume: its totalIngestions when that
   is a number, else 0 *)
VolumeOf(m) == IF m.totalIngestions.t = "number" THEN m.totalIngestions.n ELSE 0

(* The records of the list with a valid lastIngestion in month key *)
RecordsOfMonth(ms, key) ==
  {i \in DOMAIN ms : HasValidLast(ms[i]) /\ MonthOfRecord(ms[i]) = key}

(* C13: each month point of createTotalIngestionsGraph counts the sum of
   totalIngestions of the records whose lastIngestion lies in that UTC month
   (3 and 4 in one month give one point of count 7); each month point of
   createLineGraph counts the number of such records, so its counts add up
   to the number of records with a valid lastIngestion. *)
C13_MonthCountIsSumOverMonth ==
  result.fn \in LineFns =>
    /\ \A p \in DOMAIN result.dataPoints :
         LET inMonth == RecordsOfMonth(migs, result.dataPoints[p].monthKey)
         IN result.dataPoints[p].count =
              IF result.fn = "lineGraph" THEN Cardinality(inMonth)
              ELSE SumSeq([i \in DOMAIN migs |->
                             IF i \in inMonth THEN VolumeOf(migs[i]) ELSE 0])
    /\ result.fn = "lineGraph" =>
         SumSeq(Counts(result.dataPoints))
           = Cardinality({i \in DOMAIN migs : HasValidLast(migs[i])})

(* Witness of C13: two records on different days of one UTC month with 3
   and 4 ingestions, summed in a single point of count 7 *)
C13_Witness ==
  /\ result.fn = "totalIngestionsGraph"
  /\ Len(migs) = 2
  /\ migs[1].lastIngestion # migs[2].lastIngestion
  /\ migs[1].totalIngestions = Num(3)
  /\ migs[2].totalIngestions = Num(4)
  /\ Len(result.dataPoints) = 1
  /\ result.dataPoints[1].count = 7

(* Month key a lies before month key b in the calendar *)
MonthBefore(a, b) == a.year < b.year \/ (a.year = b.year /\ a.month < b.month)

(* C14: the month points of createLineGraph and createTotalIngestionsGraph
   are in strictly ascending calendar-month order whatever the order of the
   records: no month key twice, never a later month before an earlier one,
   also across a year boundary. *)
C14_MonthsStrictlyAscending ==
  result.fn \in LineFns =>
    \A i, j \in DOMAIN result.dataPoints :
      i < j => MonthBefore(result.dataPoints[i].monthKey, result.dataPoints[j].monthKey)

(* Witness of C14: a record of January 2026 listed before one of November
   2025, the points in the order November, January *)
C14_Witness ==
  /\ result.fn \in LineFns
  /\ Len(migs) = 2
  /\ HasValidLast(migs[1]) /\ HasValidLast(migs[2])
  /\ MonthOfRecord(migs[1]) = [year |-> 2026, month |-> 1]
  /\ MonthOfRecord(migs[2]) = [year |-> 2025, month |-> 11]
  /\ Len(result.dataPoints) = 2
  /\ result.dataPoints[1].monthKey = [year |-> 2025, month |-> 11]
  /\ result.dataPoints[2].monthKey = [year |-> 2026, month |-> 1]

(* Reference times from a year before to a year after the clock's start *)
OtherTimes == {Num(Clock0 + k * DAY) : k \in {-365, -40, 0, 40, 365}}

(* C15: month aggregation does not depend on the reference time or on the
   selected range: for the record list at hand createLineGraph and
   createTotalIngestionsGraph compute the same points (month keys and
   counts) and maxCount for every current time and every dateRange, and a
   record with a valid lastIngestion before the range's start date is not
   left out. *)
C15_MonthSeriesIgnoresNowAndRange ==
  result.fn \in LineFns =>
    \A now \in OtherTimes, dateRange \in DateRanges :
      SameSeries(lineGraph(result.fn, migs, now, dateRange), result)

(* Witness of C15: a record of August 2025 has its point although the clock
   stands in November 2025, more than 3 months later *)
C15_Witness ==
  /\ result.fn = "lineGraph"
  /\ Len(migs) = 1
  /\ HasValidLast(migs[1])
  /\ migs[1].lastIngestion.n < startDate(result.now, "LAST_3_MONTHS")
  /\ Len(result.dataPoints) = 1
  /\ result.dataPoints[1].monthKey = [year |-> 2025, month |-> 8]

(* C16: the grand total drawn by createBarGraph of the all-time revision is
   totalUniqueCustomers when calculateData supplies it (customers graph: the
   number of distinct customers counted in some bucket, not the sum of the
   bars) and otherwise the exact sum of the bucket counts (ingestions
   graph). *)
C16_GrandTotal ==
  (result.fn \in VariantsAll /\ result.dataPoints # <<>>) =>
    IF result.fn = "customersAll"
    THEN LET names == {migs[i].customerName : i \in DOMAIN migs}
         IN /\ totalText = result.totalUniqueCustomers
            /\ totalText = Num(Cardinality({name \in names : BucketsOfCustomer(name) # {}}))
    ELSE /\ result.totalUniqueCustomers = Undefined
         /\ totalText = Num(SumSeq(Counts(result.dataPoints)))

(* Witness of C16: the customers graph of a customer counted in two buckets
   shows a total of 1 above bars that add up to 2 *)
C16_Witness ==
  /\ result.fn = "customersAll"
  /\ result.dataPoints # <<>>
  /\ SumSeq(Counts(result.dataPoints)) = 2
  /\ totalText = Num(1)

(* The wall-clock instants at which a graph can be drawn *)
WallClocks == Clock0..(Clock0 + MaxTicks)

(* C17: the fixed-bucket aggregations take the reference time as an input
   and read no global clock: for the same record list, invocations at
   different wall-clock instants return the same dataPoints (labels, counts
   and order).  (calculateData reads Date.now(): a timestamp that reaches a
   day-range boundary between two invocations changes bucket.) *)
C17_SameSeriesAtAnyWallClock ==
  result.fn \in BarVariants =>
    \A at \in WallClocks :
      calculateData(result.fn, migs, Num(at)).dataPoints = result.dataPoints

(* A series a renderer can draw: six counted day ranges, or month points
   with integer counts on real calendar months *)
IsValidSeries(series) ==
  IF series.fn \in BarVariants
  THEN /\ Len(series.dataPoints) = 6
       /\ \A i \in DOMAIN series.dataPoints : series.dataPoints[i].count \in Nat
  ELSE /\ series.dataPoints # <<>>
       /\ \A i \in DOMAIN series.dataPoints :
            /\ series.dataPoints[i].count \in Int
            /\ series.dataPoints[i].monthKey.month \in 1..12

IsEmptySeries(series) == series.dataPoints = <<>> /\ series.maxCount = 0

(* The record list without the records whose field read by the aggregation
   is missing or of the wrong type *)
WellFormedOnly(ms, fn) ==
  IF fn \in BarVariants
  THEN SelectSeq(ms, LAMBDA m : IsArray(m.ingestionStartDates))
  ELSE SelectSeq(ms, HasValidLast)

(* C18: the aggregations have no fatal errors: whatever is missing or of
   the wrong type in the records (ingestionStartDates, customerName,
   totalIngestions, lastIngestion), calculateData and the month grouping
   return without throwing, with a valid series or the empty series, the
   series of the list without the records whose field is malformed. *)
C18_NoFatalErrors ==
  /\ error = "none"
  /\ result.fn # "none" =>
       /\ IsValidSeries(result) \/ IsEmptySeries(result)
       /\ result.fn \in BarVariants =>
            SameSeries(calculateData(result.fn, WellFormedOnly(migs, result.fn),
                                     result.now), result)
       /\ result.fn \in LineFns =>
            SameSeries(lineGraph(result.fn, WellFormedOnly(migs, result.fn),
                                 result.now, "LAST_MONTH"), result)

(* Witness of C18: a list with a record whose ingestionStartDates is no array
   and whose lastIngestion is no number, next to one whose only timestamp is
   no number, has been aggregated to six points *)
C18_Witness ==
  /\ Len(migs) = 2
  /\ ~IsArray(migs[1].ingestionStartDates) /\ Truthy(migs[1].ingestionStartDates)
  /\ ~HasValidLast(migs[1])
  /\ migs[2].ingestionStartDates.items = <<Str>>
  /\ result.fn \in BarVariants
  /\ Len(result.dataPoints) = 6
  /\ error = "none"

(* C19: the retrieval calls normalise every failure to an empty sequence:
   the promise of getCustomerMigrationInfo, getLast30DaysIngestions and
   getBpaReports is never rejected, whatever the arguments (also when
   dateRange is left out); a network error, a response that is not 2xx and a
   body that cannot be parsed resolve to [], a 2xx response resolves to the
   parsed body.  (getCustomerMigrationInfo called without dateRange rejects
   with the TypeError of its default DateRange.LAST_1_MONTH.value.) *)
C19_RetrievalNeverRejects ==
  /\ promise.state # "rejected"
  /\ promise.state = "fulfilled" =>
       promise.value =
         IF response.kind = "http" /\ response.status \in 200..299
            /\ response.body \in Bodies
         THEN response.body
         ELSE Arr(<<>>)

(* C20: the user profile is one shared cached value filled by the first
   successful fetch: from the moment a fetch with an ok response has stored
   a profile, the cached profile never changes, no further network request
   is issued, and every getUserProfile call, by whichever caller and in
   whatever order, resolves to that profile. *)
C20_ProfileCachedOnce ==
  [][Truthy(cachedUserProfile) =>
       /\ cachedUserProfile' = cachedUserProfile
       /\ requests' = requests
       /\ fetchPromise' = Null
       /\ \A c \in Callers :
            calls'[c] # calls[c] =>
              calls'[c].state = "resolved" /\ calls'[c].value = cachedUserProfile]_vars

(* Witness of C20: one caller got the profile from the fetch, another caller
   got the same profile from the cache, with one request issued in all *)
C20_Witness ==
  /\ Truthy(cachedUserProfile)
  /\ requests = 1
  /\ \E c, d \in Callers :
       /\ calls[c] = [state |-> "resolved", value |-> cachedUserProfile, via |-> "fetch"]
       /\ calls[d] = [state |-> "resolved", value |-> cachedUserProfile, via |-> "cache"]

----------------------------------------------------------------------------
(* Vocabulary of the properties about the user profile *)

(* The callers waiting for the fetch in flight *)
Awaiting == {c \in Callers : calls[c].state = "awaiting"}

(* The answer is a failure: a network error or a response that is not ok,
   or a body that cannot be parsed *)
IsFailure(resp) == ~resp.ok \/ resp.profile = Unparsable

(* C25: at most one fetch of the user profile is in flight at any time; a
   getUserProfile call made while a fetch is outstanding and the cache is
   empty issues no request and waits for that fetch, and when the fetch is
   answered every waiting caller gets the same result, the result of that
   fetch. *)
C25_OneFetchInFlight ==
  /\ [](inFlight <= 1)
  /\ [][(inFlight > 0 /\ ~Truthy(cachedUserProfile)) =>
          /\ requests' = requests
          /\ \A c \in Callers \ Awaiting :
               calls'[c] # calls[c] =>
                 calls'[c] = [state |-> "awaiting", value |-> Undefined,
                              via |-> "fetch"]
          /\ \A c \in Awaiting :
               \/ calls'[c] = calls[c]
               \/ /\ inFlight' = 0
                  /\ calls'[c].state = "resolved"
                  /\ calls'[c].value =
                       (IF IsFailure(answer') THEN Null ELSE answer'.profile)
                  /\ \A d \in Awaiting : calls'[d] = calls'[c]]_vars

(* Witness of C25: three callers called while one fetch was outstanding,
   one request was issued in all and the three got the same result *)
C25_Witness ==
  /\ requests = 1
  /\ inFlight = 0
  /\ \A c \in Callers : calls[c].state = "resolved" /\ calls[c].via = "fetch"
  /\ \A c, d \in Callers : calls[c].value = calls[d].value

(* C26: a failed fetch of the profile is not cached and never rejects: no
   getUserProfile promise is ever rejected; when the answer is a failure
   the waiting callers resolve to null and cachedUserProfile stays empty;
   fetchPromise is null whenever no fetch is in flight; and a call made
   with an empty cache and no fetch in flight issues a fresh fetch. *)
C26_FailuresNotCached ==
  /\ [](\A c \in Callers : calls[c].state # "rejected")
  /\ [](inFlight = 0 => fetchPromise = Null)
  /\ [][(inFlight' < inFlight /\ IsFailure(answer')) =>
          /\ cachedUserProfile' = cachedUserProfile
          /\ ~Truthy(cachedUserProfile')
          /\ \A c \in Awaiting :
               calls'[c] = [state |-> "resolved", value |-> Null,
                            via |-> "fetch"]]_vars
  /\ [][(inFlight = 0 /\ ~Truthy(cachedUserProfile) /\ calls' # calls) =>
          /\ requests' = requests + 1
          /\ inFlight' = 1
          /\ Truthy(fetchPromise')]_vars

(* Witness of C26: a fetch failed, a caller got null from it, the cache is
   empty, and the next call has issued a second fetch that is in flight *)
C26_Witness ==
  /\ IsFailure(answer)
  /\ requests = 2
  /\ inFlight = 1
  /\ ~Truthy(cachedUserProfile)
  /\ \E c, d \in Callers :
       /\ calls[c] = [state |-> "resolved", value |-> Null, via |-> "fetch"]
       /\ calls[d].state = "awaiting"

----------------------------------------------------------------------------
(* C30: whenever a line graph is drawn (at least one data point) the
   divisor maxDate - minDate of the x scale is not zero, and the x
   coordinate of every point is a number from padding.left to
   padding.left + graphWidth; in particular when all valid records fall in
   one month. *)
C30_XScaleDefined ==
  (result.fn \in LineFns /\ Len(result.dataPoints) > 0) =>
    /\ result.dataPoints[Len(result.dataPoints)].date # result.dataPoints[1].date
    /\ \A i \in DOMAIN result.xs :
         /\ IsNum(result.xs[i])
         /\ result.xs[i].n >= paddingLeft
         /\ result.xs[i].n <= paddingLeft + graphWidth

----------------------------------------------------------------------------
(* Vocabulary of the properties about MigrationsApp *)

(* The page is the admin page on localhost without email or without name *)
MissingParams ==
  page.variant = "admin" /\ page.isLocalhost /\ ~(page.email /\ page.name)

(* The invocations of startMigrationSearch made so far *)
Started == {c \in Callers : searches[c].pc # "idle"}

(* The invocations that got past ensureUserProfile and called the
   retrieval function *)
Called == {c \in Callers : searches[c].call.fn # "none"}

(* C22: on localhost without the email or the name parameter the admin
   MigrationsApp disables the search input and button, shows the
   access-denied message and attaches no listener; whatever the user does
   afterwards, no search is started, no profile is fetched, no retrieval
   function is called and no request is issued. *)
C22_MissingParamsBlockThePage ==
  (app.constructed /\ MissingParams) =>
    /\ app.disabled
    /\ app.container = "access-denied"
    /\ app.listeners = {}
    /\ Started = {}
    /\ app.dataCalls = <<>>
    /\ app.dataRequests = <<>>
    /\ requests = 0

(* Witness of C22: the page was opened with the name missing and the user
   has clicked, typed and pressed keys MaxEvents times *)
C22_Witness ==
  /\ app.constructed
  /\ MissingParams
  /\ page.email /\ ~page.name
  /\ app.events = MaxEvents
  /\ app.disabled
  /\ app.container = "access-denied"

(* C27: the authentication gate: in the admin page and in the tracker a
   retrieval function is called only while this.userProfile holds a
   profile, and a search that found the user not logged in has called no
   retrieval function. *)
C27_AuthenticationGate ==
  /\ \A i \in DOMAIN app.dataCalls : Truthy(app.dataCalls[i].userProfile)
  /\ \A c \in Called : Truthy(searches[c].call.userProfile)
  /\ \A c \in Started :
       searches[c].outcome = "not-logged-in" => c \notin Called

(* The admin searches *)
AdminCalled == {c \in Called : searches[c].call.fn = "getCustomerMigrationInfo"}

(* C23: a malformed record degrades the display and does not abort it:
   an admin search that was let through to the retrieval call and has
   completed, has rendered the table, the summary and the graphs, whatever
   the list holds, and has not ended in the 'Failed to load migration
   data.' state. *)
C23_SearchRendersWhateverTheList ==
  \A c \in AdminCalled :
    searches[c].pc = "done" => searches[c].outcome = "rendered"

(* C24: every search call carries the value selected in date-range-select
   (LAST_MONTH without the element) as dateRange: the call issues a request
   whose dateRange parameter is that value, and no other parameter of the
   call or of the request holds it. *)
C24_SelectedRangeIsTheDateRange ==
  \A c \in AdminCalled :
    /\ searches[c].selectedRange \in DOMAIN DateRange
    /\ searches[c].call.searchBy # searches[c].selectedRange
    /\ searches[c].request.fn = "getCustomerMigrationInfo"
    /\ <<"dateRange", searches[c].selectedRange>> \in searches[c].request.params
    /\ \A p \in searches[c].request.params :
         p[2] = searches[c].selectedRange => p[1] = "dateRange"

(* The invocation started last *)
IsLatest(c) == searches[c].order = app.started

(* C28: the last search wins: once two admin searches that were under way
   at the same time have both completed, and the user has not edited the
   customer filter, the header and the graphs show the range of the search
   started later. *)
C28_LastSearchWins ==
  \A c \in AdminCalled :
    (/\ IsLatest(c)
     /\ searches[c].during # {}
     /\ \A d \in Started : searches[d].pc = "done"
     /\ ~app.edited) =>
      /\ app.header = searches[c].selectedRange
      /\ app.graphs = searches[c].selectedRange

----------------------------------------------------------------------------
(* Vocabulary of the properties about MigrationsTable *)

(* The rows are in the order the sort class stands for, by the column *)
IsOrdered(rows, column, class) ==
  \A i, j \in DOMAIN rows :
    i < j => IF class = "sorted-asc" THEN rows[i][column] <= rows[j][column]
             ELSE rows[i][column] >= rows[j][column]

(* C29: once the table is built, after any initTable calls and header
   clicks, exactly one header carries a sort class and the rendered rows
   are ordered by the column of that header, ascending under sorted-asc and
   descending under sorted-desc. *)
C29_SortIndicatorMatchesRows ==
  table.built =>
    /\ Cardinality(table.headers) = 1
    /\ \A h \in table.headers : IsOrdered(table.rows, h[1], h[2])

====
